---- MODULE Spec2Model ----
(***************************************************************************)
(* A model of the telemetry engine of "src/study/Aicode test/AItest.cpp":  *)
(* AlertSystem (thresholds, per-key cooldown map, alert callback) and      *)
(* DataCollector (bounded system history, background collection loop,      *)
(* start/stop, read accessors).                                            *)
(*                                                                         *)
(* Doubles are modelled by integers: percentages are whole percents, I/O   *)
(* rates whole bytes per second, times whole seconds.  Only comparisons    *)
(* and the two divisions of the code are taken of them.                    *)
(***************************************************************************)
EXTENDS Integers, Sequences, FiniteSets, TLC

(***************************************************************************)
(* Bounds of the model.                                                    *)
(***************************************************************************)
MaxTime == 3
MaxCap == 2
MaxStarts == 2
MaxClock == 2
MaxTick == 4
\* MAX_HISTORY of the process monitor (60 in the source), scaled down.
MAX_HISTORY == 2
TicksPerMs == 2
CounterModulus == 65536

(***************************************************************************)
(* Program constants.                                                      *)
(***************************************************************************)
DefaultCpuThreshold == 80
DefaultMemoryThreshold == 85
DefaultIoThreshold == 100
DefaultCooldownPeriod == 60
ProcessCpuThreshold == 50
BytesPerMB == 1048576

VARIABLES
    now,                \* std::chrono::system_clock::now(), in seconds
    thresholds_,        \* AlertSystem::thresholds_
    last_alerts_,       \* AlertSystem::last_alerts_ : alert key -> time point
    alert_callback_,    \* AlertSystem::alert_callback_ holds a target
    mutex_,             \* AlertSystem::mutex_ : its owner, or NoThread
    ev,                 \* per thread: the frame of its call of checkAlerts
    max_history_size_,  \* DataCollector::max_history_size_
    system_history_,    \* DataCollector::system_history_
    data_mutex_,        \* DataCollector::data_mutex_ : its owner, or NoThread
    collecting_,        \* DataCollector::collecting_
    collection_thread_, \* DataCollector::collection_thread_ : the thread it
                        \* holds while joinable, or NoThread
    data_callback_,     \* DataCollector::data_callback_ holds a target
    loop,               \* per collection thread: position and locals of collectionLoop
    spawned,            \* number of std::thread objects constructed so far
    caller,             \* the client thread: the call it is in and what the call last returned
    terminated,         \* std::terminate has been called
    fired,              \* per alert key, the firings so far: the time and the
                        \* cooldown period read by each (history of the run)
    pushed,             \* the snapshots stored since construction or the last
                        \* clearHistory, in push order (history of the run)
    info_collector_,    \* the SystemInfoCollector: first_io_read_,
                        \* prev_io_counters_, first_cpu_read_, prev_cpu_times_
    readings,           \* the last two calls of each reader: what the platform
                        \* reported and what the reader returned (history of the run)
    monitor,            \* the ProcessMonitor: processes, lastSystemTimes,
                        \* lastUpdateTime
    callers,            \* per further client thread: where it is in a call
                        \* of startCollection or stopCollection
    sampled             \* per pid, the last MAX_HISTORY samples taken of it in
                        \* the refreshes since it was last absent, oldest
                        \* first (history of the run)

alertVars == <<thresholds_, last_alerts_, alert_callback_, mutex_, ev, fired>>
collectorVars == <<max_history_size_, system_history_, data_mutex_, collecting_,
                   collection_thread_, data_callback_, loop, spawned, caller,
                   terminated, pushed, callers>>
monitorVars == <<monitor, sampled>>
probeVars == <<info_collector_, readings, monitorVars>>
vars == <<now, probeVars, alertVars, collectorVars>>

(***************************************************************************)
(* Threads.  Collection threads are named in the order they are created;   *)
(* the client threads call the public methods.                             *)
(***************************************************************************)
NoThread == "none"
MainThread == "main"
AlertClients == {"c1", "c2"}

DigitChars == <<"0", "1", "2", "3", "4", "5", "6", "7", "8", "9">>

RECURSIVE to_string(_)
to_string(n) ==
    IF n < 10 THEN DigitChars[n + 1]
    ELSE to_string(n \div 10) \o DigitChars[(n % 10) + 1]

LoopId(i) == "loop" \o to_string(i)
LoopIds == {LoopId(i) : i \in 1..MaxStarts}
Threads == AlertClients \cup LoopIds

(***************************************************************************)
(* Data.                                                                   *)
(***************************************************************************)
\* The member initialisers of SystemStats::SystemStats(): every metric 0.
ZeroStats ==
    [timestamp |-> 0, cpu_percent |-> 0, memory_percent |-> 0,
     memory_used_bytes |-> 0, memory_total_bytes |-> 0,
     disk_io_read_rate |-> 0, disk_io_write_rate |-> 0, process_count |-> 0]

\* SystemStats::SystemStats(): every metric 0, timestamp = now().
SystemStats == [ZeroStats EXCEPT !.timestamp = now]

\* ProcessInfo(pid, name) with the fields the engine reads.
ProcessInfo(p, n, cpu, mem) ==
    [pid |-> p, name |-> n, cpu_percent |-> cpu, memory_percent |-> 0,
     memory_bytes |-> mem]

\* AlertSystem::AlertThresholds with its default member initialisers.
AlertThresholds ==
    [cpu_threshold |-> DefaultCpuThreshold,
     memory_threshold |-> DefaultMemoryThreshold,
     io_threshold |-> DefaultIoThreshold,
     cooldown_period |-> DefaultCooldownPeriod]

\* The frame of checkAlerts: which check it is at (stage), where in the check
\* (step), the arguments, the index of the process being checked, the local
\* vector `alerts`, the alerts handed to the callback by this call, and the
\* thresholds that were stored when the call began (history of the call).
EvIdle ==
    [stage |-> "idle", step |-> "cmp", stats |-> ZeroStats, procs |-> <<>>,
     i |-> 0, alerts |-> <<>>, called |-> <<>>, began |-> AlertThresholds]

(***************************************************************************)
(* AlertSystem.                                                            *)
(***************************************************************************)
\* setThresholds: thresholds_ = thresholds, under mutex_ from the lock_guard
\* to the return.
setThresholds(th) ==
    /\ ~terminated
    /\ mutex_ = NoThread
    /\ thresholds_' = th
    /\ UNCHANGED <<now, probeVars, callers, last_alerts_, fired, alert_callback_, mutex_, ev, collectorVars>>

\* AlertSystem::setAlertCallback: alert_callback_ = callback, under mutex_.
AlertSystem_setAlertCallback ==
    /\ ~terminated
    /\ mutex_ = NoThread
    /\ alert_callback_' = TRUE
    /\ UNCHANGED <<now, probeVars, callers, thresholds_, last_alerts_, fired, mutex_, ev, collectorVars>>

\* A key that leaves the pid out.
AlertKey_nopid(e) ==
    IF e.stage = "process" THEN "process_" ELSE e.stage

\* The key string of the check a frame is at; std::to_string of the pid for
\* a process check.
AlertKey(e) ==
    IF e.stage = "process" THEN "process_" \o to_string(e.procs[e.i].pid)
    ELSE e.stage

\* The conditions with >= in place of >.
ExceedsThreshold_ge(e) ==
    CASE e.stage = "cpu" -> e.stats.cpu_percent >= thresholds_.cpu_threshold
      [] e.stage = "memory" -> e.stats.memory_percent >= thresholds_.memory_threshold
      [] e.stage = "io" ->
            e.stats.disk_io_read_rate + e.stats.disk_io_write_rate
                >= thresholds_.io_threshold * BytesPerMB
      [] e.stage = "process" -> e.procs[e.i].cpu_percent >= ProcessCpuThreshold

\* The condition of the check a frame is at, read from thresholds_ at that
\* moment.  total_io = (read + write) / (1024 * 1024) > io_threshold is
\* compared without the division, which is exact for a divisor 2^20.
ExceedsThreshold(e) ==
    CASE e.stage = "cpu" -> e.stats.cpu_percent > thresholds_.cpu_threshold
      [] e.stage = "memory" -> e.stats.memory_percent > thresholds_.memory_threshold
      [] e.stage = "io" ->
            e.stats.disk_io_read_rate + e.stats.disk_io_write_rate
                > thresholds_.io_threshold * BytesPerMB
      [] e.stage = "process" -> e.procs[e.i].cpu_percent > ProcessCpuThreshold

\* The checks with io before memory.
NextCheck_io_first(e) ==
    CASE e.stage = "cpu" -> [e EXCEPT !.stage = "io", !.step = "cmp"]
      [] e.stage = "io" -> [e EXCEPT !.stage = "memory", !.step = "cmp"]
      [] e.stage \in {"memory", "process"} ->
            IF e.i < Len(e.procs)
            THEN [e EXCEPT !.stage = "process", !.step = "cmp", !.i = e.i + 1]
            ELSE [e EXCEPT !.stage = "return", !.step = "cmp"]

\* The frame moved to the next check of checkAlerts: cpu, memory, io, then
\* the processes in the order of the vector, then the return statement.
NextCheck(e) ==
    CASE e.stage = "cpu" -> [e EXCEPT !.stage = "memory", !.step = "cmp"]
      [] e.stage = "memory" -> [e EXCEPT !.stage = "io", !.step = "cmp"]
      [] e.stage \in {"io", "process"} ->
            IF e.i < Len(e.procs)
            THEN [e EXCEPT !.stage = "process", !.step = "cmp", !.i = e.i + 1]
            ELSE [e EXCEPT !.stage = "return", !.step = "cmp"]

AlertType(e) ==
    CASE e.stage = "cpu" -> "CPU"
      [] e.stage = "memory" -> "MEMORY"
      [] e.stage = "io" -> "IO"
      [] e.stage = "process" -> "PROCESS"

\* The text of the message, as the values it is built from.
AlertMessage(e) ==
    CASE e.stage = "cpu" -> <<e.stats.cpu_percent>>
      [] e.stage = "memory" -> <<e.stats.memory_percent>>
      [] e.stage = "io" -> <<e.stats.disk_io_read_rate + e.stats.disk_io_write_rate>>
      [] e.stage = "process" ->
            <<e.procs[e.i].pid, e.procs[e.i].cpu_percent>>

Checks == {"cpu", "memory", "io", "process"}

\* checkAlerts is entered: `alerts` is empty and the cpu check is next.
checkAlerts(t, stats, processes) ==
    /\ ~terminated
    /\ ev[t].stage = "idle"
    /\ ev' = [ev EXCEPT ![t] = [stage |-> "cpu", step |-> "cmp", stats |-> stats,
                                 procs |-> processes, i |-> 0, alerts |-> <<>>,
                                 called |-> <<>>, began |-> thresholds_]]

\* if (metric > threshold): the outer condition of a check.
CompareStep(t) ==
    /\ ~terminated
    /\ ev[t].stage \in Checks /\ ev[t].step = "cmp"
    /\ ev' = [ev EXCEPT ![t] = IF ExceedsThreshold(ev[t])
                                THEN [ev[t] EXCEPT !.step = "should"]
                                ELSE NextCheck(ev[t])]
    /\ UNCHANGED <<now, probeVars, callers, thresholds_, last_alerts_, fired, alert_callback_, mutex_, collectorVars>>

\* The test of shouldAlert: the key is not in the map, or the cooldown
\* period has passed since the time recorded under it.
CooldownElapsed_strict(key) ==
    \/ key \notin DOMAIN last_alerts_
    \/ now - last_alerts_[key] > thresholds_.cooldown_period

CooldownElapsed(key) ==
    \/ key \notin DOMAIN last_alerts_
    \/ now - last_alerts_[key] >= thresholds_.cooldown_period

\* A recording that forgets the other keys.
RecordAlert_alone(key) ==
    [k \in {key} |-> now]

\* last_alerts_[alert_key] = now
RecordAlert(key) ==
    [k \in DOMAIN last_alerts_ \cup {key} |->
        IF k = key THEN now ELSE last_alerts_[k]]

\* The firings of a key so far.
FiredUnder(key) == IF key \in DOMAIN fired THEN fired[key] ELSE <<>>

\* The run's record of a firing of the key now.
Firing(key) ==
    [k \in DOMAIN fired \cup {key} |->
        IF k = key
        THEN Append(FiredUnder(key),
                    [at |-> now, cooldown |-> thresholds_.cooldown_period])
        ELSE fired[k]]

\* shouldAlert without line `last_alerts_[alert_key] = now`.
shouldAlert_norecord(t) ==
    /\ ~terminated
    /\ ev[t].stage \in Checks /\ ev[t].step = "should"
    /\ mutex_ = t
    /\ mutex_' = NoThread
    /\ IF CooldownElapsed(AlertKey(ev[t]))
       THEN /\ fired' = Firing(AlertKey(ev[t]))
            /\ ev' = [ev EXCEPT ![t].step = "fire"]
       ELSE /\ fired' = fired
            /\ ev' = [ev EXCEPT ![t] = NextCheck(ev[t])]
    /\ UNCHANGED <<now, probeVars, callers, thresholds_, last_alerts_, alert_callback_, collectorVars>>

\* shouldAlert(alert_key) is entered: std::lock_guard lock(mutex_).
shouldAlertLock(t) ==
    /\ ~terminated
    /\ ev[t].stage \in Checks /\ ev[t].step = "should"
    /\ mutex_ = NoThread
    /\ mutex_' = t
    /\ UNCHANGED <<now, probeVars, callers, thresholds_, last_alerts_, fired, alert_callback_, ev, collectorVars>>

\* shouldAlert whose lock outlives the call: mutex_ is still held when
\* checkAlerts goes on.
shouldAlert_keeplock(t) ==
    /\ ~terminated
    /\ ev[t].stage \in Checks /\ ev[t].step = "should"
    /\ mutex_ = t
    /\ mutex_' = t
    /\ IF CooldownElapsed(AlertKey(ev[t]))
       THEN /\ last_alerts_' = RecordAlert(AlertKey(ev[t]))
            /\ fired' = Firing(AlertKey(ev[t]))
            /\ ev' = [ev EXCEPT ![t].step = "fire"]
       ELSE /\ last_alerts_' = last_alerts_
            /\ fired' = fired
            /\ ev' = [ev EXCEPT ![t] = NextCheck(ev[t])]
    /\ UNCHANGED <<now, probeVars, callers, thresholds_, alert_callback_, collectorVars>>

\* shouldAlert that records the time of a suppressed attempt too.
shouldAlert_touch(t) ==
    /\ ~terminated
    /\ ev[t].stage \in Checks /\ ev[t].step = "should"
    /\ mutex_ = t
    /\ mutex_' = NoThread
    /\ last_alerts_' = RecordAlert(AlertKey(ev[t]))
    /\ IF CooldownElapsed(AlertKey(ev[t]))
       THEN /\ fired' = Firing(AlertKey(ev[t]))
            /\ ev' = [ev EXCEPT ![t].step = "fire"]
       ELSE /\ fired' = fired
            /\ ev' = [ev EXCEPT ![t] = NextCheck(ev[t])]
    /\ UNCHANGED <<now, probeVars, callers, thresholds_, alert_callback_, collectorVars>>

\* shouldAlert(alert_key), the body under mutex_; the return releases it.
shouldAlert(t) ==
    /\ ~terminated
    /\ ev[t].stage \in Checks /\ ev[t].step = "should"
    /\ mutex_ = t
    /\ mutex_' = NoThread
    /\ IF CooldownElapsed(AlertKey(ev[t]))
       THEN /\ last_alerts_' = RecordAlert(AlertKey(ev[t]))
            /\ fired' = Firing(AlertKey(ev[t]))
            /\ ev' = [ev EXCEPT ![t].step = "fire"]
       ELSE /\ last_alerts_' = last_alerts_
            /\ fired' = fired
            /\ ev' = [ev EXCEPT ![t] = NextCheck(ev[t])]
    /\ UNCHANGED <<now, probeVars, callers, thresholds_, alert_callback_, collectorVars>>

\* The body of a check after shouldAlert returned true: the alert is built
\* with timestamp now(), pushed on `alerts`, and the callback is entered if
\* alert_callback_ holds a target.
FireStep(t) ==
    /\ ~terminated
    /\ ev[t].stage \in Checks /\ ev[t].step = "fire"
    /\ LET alert == [type |-> AlertType(ev[t]), timestamp |-> now,
                     message |-> AlertMessage(ev[t])]
           pushed_back == [ev[t] EXCEPT !.alerts = Append(@, alert)]
       IN ev' = [ev EXCEPT ![t] =
                    IF alert_callback_
                    THEN [pushed_back EXCEPT !.step = "cb", !.called = Append(@, alert)]
                    ELSE NextCheck(pushed_back)]
    /\ UNCHANGED <<now, probeVars, callers, thresholds_, last_alerts_, fired, alert_callback_, mutex_, collectorVars>>

\* alert_callback_(alert) returns.
CallbackReturns(t) ==
    /\ ~terminated
    /\ ev[t].stage \in Checks /\ ev[t].step = "cb"
    /\ ev' = [ev EXCEPT ![t] = NextCheck(ev[t])]
    /\ UNCHANGED <<now, probeVars, callers, thresholds_, last_alerts_, fired, alert_callback_, mutex_, collectorVars>>

(***************************************************************************)
(* SystemInfoCollector: the platform probe.  What the operating system     *)
(* reports is an input, drawn from small sets.                             *)
(***************************************************************************)
\* What the readers can report in one reading: CPU usage, memory used and
\* total, disk read and write rate.  The first is the reading of a tick in
\* which the readers fail without throwing: getCPUUsageLinux returns 0.0 when
\* /proc/stat cannot be opened, getMemoryInfo sets total = used = 0 when
\* sysinfo fails, getIOStats reports 0 when /proc/diskstats cannot be opened.
\* A successful reading has a positive memory total.
ProbeReadings ==
    {[cpu |-> 0, used |-> 0, total |-> 0, read |-> 0, write |-> 0],
     [cpu |-> 90, used |-> 40, total |-> 100, read |-> 0, write |-> 0]}

\* The process lists the platform readers can return.  They construct each
\* entry with ProcessInfo(pid, name) and never assign cpu_percent.
ProbeLists ==
    {<<ProcessInfo(1, "a", 0, 10)>>}

\* getSystemStats: timestamp = now(), the readings, memory_percent when the
\* total is positive, process_count = size of a process list read for it.
getSystemStats(r, list) ==
    [timestamp |-> now,
     cpu_percent |-> r.cpu,
     memory_percent |-> IF r.total > 0 THEN (r.used * 100) \div r.total ELSE 0,
     memory_used_bytes |-> r.used,
     memory_total_bytes |-> r.total,
     disk_io_read_rate |-> r.read,
     disk_io_write_rate |-> r.write,
     process_count |-> Len(list)]

(***************************************************************************)
(* The readers of SystemInfoCollector.  What /proc holds and what          *)
(* system_clock::now() returns at a call are inputs.  A double is          *)
(* modelled by the exact quotient it approximates, kept as numerator and   *)
(* denominator; uint64_t arithmetic wraps at CounterModulus.               *)
(***************************************************************************)
\* The record of a reader's calls keeps the last call and the one before.
LastTwo(calls, call) ==
    IF calls = <<>> THEN <<call>> ELSE <<calls[Len(calls)], call>>

\* The double 0.0.
ZeroRate == [num |-> 0, den |-> 1]

\* uint64_t subtraction.
WrapSub(a, b) == (a - b) % CounterModulus

\* Integer division of C++: the quotient is truncated towards zero.
TruncDiv(a, b) == IF a >= 0 THEN a \div b ELSE -((-a) \div b)

\* duration_cast<milliseconds>(now - prev).count(): time points are in clock
\* ticks, TicksPerMs of them to a millisecond.
DurationMs(at, prev) == TruncDiv(at - prev, TicksPerMs)

\* SystemInfoCollector as constructed: both first-read flags set, the I/O
\* counters 0 by their member initialisers.
NewInfoCollector ==
    [first_io_read_ |-> TRUE,
     prev_io_counters_ |-> [read_bytes |-> 0, write_bytes |-> 0, timestamp |-> 0],
     first_cpu_read_ |-> TRUE,
     prev_cpu_times_ |-> [user |-> 0, nice |-> 0, system |-> 0, idle |-> 0,
                          iowait |-> 0, irq |-> 0, softirq |-> 0, steal |-> 0]]

\* The rates without the test `duration > 0`.
IORates_undivided(c, cur, at) ==
    LET duration == DurationMs(at, c.prev_io_counters_.timestamp)
    IN IF ~c.first_io_read_
       THEN [read_rate |->
                [num |-> WrapSub(cur.read_bytes, c.prev_io_counters_.read_bytes) * 1000,
                 den |-> duration],
             write_rate |->
                [num |-> WrapSub(cur.write_bytes, c.prev_io_counters_.write_bytes) * 1000,
                 den |-> duration]]
       ELSE [read_rate |-> ZeroRate, write_rate |-> ZeroRate]

\* The rates getIOStats assigns, given the counters read and now().
IORates(c, cur, at) ==
    LET duration == DurationMs(at, c.prev_io_counters_.timestamp)
    IN IF ~c.first_io_read_ /\ duration > 0
       THEN [read_rate |->
                [num |-> WrapSub(cur.read_bytes, c.prev_io_counters_.read_bytes) * 1000,
                 den |-> duration],
             write_rate |->
                [num |-> WrapSub(cur.write_bytes, c.prev_io_counters_.write_bytes) * 1000,
                 den |-> duration]]
       ELSE [read_rate |-> ZeroRate, write_rate |-> ZeroRate]

\* getIOStats(read_rate, write_rate): the rates are assigned, the first-read
\* flag is cleared and the reading becomes prev_io_counters_.  The counters
\* are those summed from /proc/diskstats, or 0 when it cannot be opened.
getIOStats(cur, at) ==
    /\ info_collector_' =
            [info_collector_ EXCEPT
                !.first_io_read_ = FALSE,
                !.prev_io_counters_ = [read_bytes |-> cur.read_bytes,
                                       write_bytes |-> cur.write_bytes,
                                       timestamp |-> at]]
    /\ readings' = [readings EXCEPT !.io =
            LastTwo(@, [read_bytes |-> cur.read_bytes, write_bytes |-> cur.write_bytes,
                       timestamp |-> at,
                       out |-> IORates(info_collector_, cur, at)])]
    /\ UNCHANGED <<now, monitorVars, alertVars, collectorVars>>

\* idle + iowait and the sum of the other six fields of a CPUTimes.
IdleOf(t) == (t.idle + t.iowait) % CounterModulus
NonIdleOf(t) ==
    (t.user + t.nice + t.system + t.irq + t.softirq + t.steal) % CounterModulus
TotalOf(t) == (IdleOf(t) + NonIdleOf(t)) % CounterModulus

\* What getCPUUsageLinux returns after the first read.
CPUUsage(prev, cur) ==
    LET total_diff == WrapSub(TotalOf(cur), TotalOf(prev))
        idle_diff == WrapSub(IdleOf(cur), IdleOf(prev))
    IN IF total_diff = 0 THEN ZeroRate
       ELSE [num |-> WrapSub(total_diff, idle_diff) * 100, den |-> total_diff]

\* getCPUUsageLinux when readCPUTimes returns false: 0.0, nothing stored.
getCPUUsageLinuxUnread ==
    /\ readings' = [readings EXCEPT !.cpu =
            LastTwo(@, [read |-> FALSE, times |-> NewInfoCollector.prev_cpu_times_,
                       out |-> ZeroRate])]
    /\ UNCHANGED <<now, info_collector_, monitorVars, alertVars, collectorVars>>

\* getCPUUsageLinux when readCPUTimes filled current_times.
getCPUUsageLinux(current_times) ==
    /\ info_collector_' =
            [info_collector_ EXCEPT !.first_cpu_read_ = FALSE,
                                    !.prev_cpu_times_ = current_times]
    /\ readings' = [readings EXCEPT !.cpu =
            LastTwo(@, [read |-> TRUE, times |-> current_times,
                       out |-> IF info_collector_.first_cpu_read_ THEN ZeroRate
                               ELSE CPUUsage(info_collector_.prev_cpu_times_,
                                             current_times)])]
    /\ UNCHANGED <<now, monitorVars, alertVars, collectorVars>>

(***************************************************************************)
(* ProcessMonitor (the Windows process monitor of src/result).  Times are  *)
(* FILETIME values scaled to ticks; ULONGLONG arithmetic is modulo         *)
(* CounterModulus.                                                         *)
(***************************************************************************)
\* The pids the platform enumerates.
MonitorPids == {1, 2}

\* GetNumberOfProcessors().
NumberOfProcessors == 2

\* ProcessMonitor(hwnd) before its body runs: lastUpdateTime(0), an empty
\* process vector and an empty map of CPU times.  The first refresh is the
\* one the constructor makes.
NewProcessMonitor ==
    [processes |-> <<>>, lastSystemTimes |-> <<>>, lastUpdateTime |-> 0]

\* info.cpuHistory.push_back(cpuUsage); info.memHistory.push_back(memoryUsage);
\* the oldest entry of both is erased when cpuHistory is longer than
\* MAX_HISTORY.
StoreHistory(info) ==
    LET cpu == Append(info.cpuHistory, info.cpuUsage)
        mem == Append(info.memHistory, info.memoryUsage)
    IN IF Len(cpu) > MAX_HISTORY
       THEN [info EXCEPT !.cpuHistory = Tail(cpu), !.memHistory = Tail(mem)]
       ELSE [info EXCEPT !.cpuHistory = cpu, !.memHistory = mem]

\* The CPU usage of a process since the last refresh: 0.0 for a pid without
\* an entry in lastSystemTimes.
MonitorCpuUsage(m, p, currentTime) ==
    IF p.pid \in DOMAIN m.lastSystemTimes
    THEN [num |-> WrapSub(p.totalTime, m.lastSystemTimes[p.pid]) * 100,
          den |-> WrapSub(currentTime, m.lastUpdateTime) * NumberOfProcessors]
    ELSE ZeroRate

\* The ProcessInfo built for an enumerated process: a local `info` whose
\* histories start empty and receive this refresh's sample.
MonitorProcessInfo(m, p, currentTime) ==
    StoreHistory([pid |-> p.pid,
                  cpuUsage |-> MonitorCpuUsage(m, p, currentTime),
                  memoryUsage |-> p.memoryUsage,
                  lastCpuTime |-> p.totalTime,
                  cpuHistory |-> <<>>,
                  memHistory |-> <<>>])

\* The loop of UpdateProcessList from entry i of what was enumerated: the
\* info is pushed on `processes` and lastSystemTimes[pid] = totalTime.
RECURSIVE ScanProcesses(_, _, _, _)
ScanProcesses(m, found, i, currentTime) ==
    IF i > Len(found) THEN m
    ELSE LET p == found[i]
         IN ScanProcesses(
                [m EXCEPT !.processes = Append(@, MonitorProcessInfo(m, p, currentTime)),
                          !.lastSystemTimes =
                              [pid \in DOMAIN @ \cup {p.pid} |->
                                  IF pid = p.pid THEN p.totalTime ELSE @[pid]]],
                found, i + 1, currentTime)

\* The samples of the run after a refresh that built m.processes:
\* a pid found gains its sample, a pid not found starts over.
Sampled(m) ==
    [pid \in MonitorPids |->
        IF \E i \in 1..Len(m.processes) : m.processes[i].pid = pid
        THEN LET info == m.processes[CHOOSE i \in 1..Len(m.processes) :
                                        m.processes[i].pid = pid]
                 all == Append(sampled[pid], [cpuUsage |-> info.cpuUsage,
                                              memoryUsage |-> info.memoryUsage])
             IN IF Len(all) > MAX_HISTORY THEN Tail(all) ELSE all
        ELSE <<>>]

\* UpdateProcessList: processes.clear(); the processes that EnumProcesses,
\* OpenProcess and GetProcessTimes yield are scanned in order; then
\* lastUpdateTime = currentTime.  The system time has moved on since the
\* last refresh.
UpdateProcessList(found, currentTime) ==
    /\ currentTime > monitor.lastUpdateTime
    /\ LET m == ScanProcesses([monitor EXCEPT !.processes = <<>>], found, 1,
                              currentTime)
       IN /\ monitor' = [m EXCEPT !.lastUpdateTime = currentTime]
          /\ sampled' = Sampled(m)
    /\ UNCHANGED <<now, info_collector_, readings, alertVars, collectorVars>>

\* UpdateProcessList when EnumProcesses fails: processes.clear() and return.
UpdateProcessListFails ==
    /\ monitor' = [monitor EXCEPT !.processes = <<>>]
    /\ sampled' = [pid \in MonitorPids |-> <<>>]
    /\ UNCHANGED <<now, info_collector_, readings, alertVars, collectorVars>>

(***************************************************************************)
(* DataCollector.                                                          *)
(***************************************************************************)
\* A collection thread: its position in collectionLoop, its locals, and the
\* numbers of ticks it has begun and of sleeps it has finished (history of
\* the run).
LoopUnborn ==
    [pc |-> "unborn", stats |-> ZeroStats, processes |-> <<>>, ticks |-> 0,
     sleeps |-> 0]

\* The loop's per-process memory_percent, computed when total_memory > 0.
WithMemoryPercent(list, total_memory) ==
    [k \in 1..Len(list) |->
        IF total_memory > 0
        THEN [list[k] EXCEPT !.memory_percent = (list[k].memory_bytes * 100) \div total_memory]
        ELSE list[k]]

\* The outcomes std::sort can produce with the comparator
\* a.cpu_percent > b.cpu_percent: the permutations of the list in which no
\* entry is followed by one of larger cpu_percent (the order of equal
\* entries is unspecified).
SortedByCpu(list) ==
    LET n == Len(list)
        Perms == {f \in [1..n -> 1..n] : \A a, b \in 1..n : a # b => f[a] # f[b]}
    IN {[k \in 1..n |-> list[f[k]]] : f \in
            {g \in Perms : \A k \in 1..(n - 1) :
                ~(list[g[k + 1]].cpu_percent > list[g[k]].cpu_percent)}}

\* A loop condition that is always true.
LoopCheck_forever(l) ==
    /\ ~terminated
    /\ loop[l].pc = "check"
    /\ loop[l].ticks <= MaxTime
    /\ loop' = [loop EXCEPT ![l].pc = "probe_stats", ![l].ticks = @ + 1]
    /\ UNCHANGED <<now, probeVars, callers, alertVars, max_history_size_, system_history_, data_mutex_,
                   collecting_, collection_thread_, data_callback_, spawned, caller,
                   terminated, pushed>>

\* while (collecting_.load()); the locals end with the thread function.
LoopCheck(l) ==
    /\ ~terminated
    /\ loop[l].pc = "check"
    /\ loop' = IF collecting_
               THEN [loop EXCEPT ![l].pc = "probe_stats", ![l].ticks = @ + 1]
               ELSE [loop EXCEPT ![l].pc = "exited", ![l].stats = ZeroStats,
                                 ![l].processes = <<>>]
    /\ UNCHANGED <<now, probeVars, callers, alertVars, max_history_size_, system_history_, data_mutex_,
                   collecting_, collection_thread_, data_callback_, spawned, caller,
                   terminated, pushed>>

\* SystemStats stats = info_collector_->getSystemStats();
LoopGetSystemStats(l, r, list) ==
    /\ ~terminated
    /\ loop[l].pc = "probe_stats"
    /\ loop' = [loop EXCEPT ![l].pc = "probe_list",
                            ![l].stats = getSystemStats(r, list)]
    /\ UNCHANGED <<now, probeVars, callers, alertVars, max_history_size_, system_history_, data_mutex_,
                   collecting_, collection_thread_, data_callback_, spawned, caller,
                   terminated, pushed>>

\* processes = info_collector_->getProcessList(); the memory_percent loop;
\* std::sort.
LoopGetProcessList(l, list) ==
    /\ ~terminated
    /\ loop[l].pc = "probe_list"
    /\ \E sorted \in SortedByCpu(WithMemoryPercent(list, loop[l].stats.memory_total_bytes)) :
          loop' = [loop EXCEPT ![l].pc = "store", ![l].processes = sorted]
    /\ UNCHANGED <<now, probeVars, callers, alertVars, max_history_size_, system_history_, data_mutex_,
                   collecting_, collection_thread_, data_callback_, spawned, caller,
                   terminated, pushed>>

\* The probe throws: kind "std" is an exception derived from std::exception,
\* caught by the loop's handler; any other kind leaves the thread function
\* and std::terminate is called.
LoopProbeThrows(l, kind) ==
    /\ ~terminated
    /\ loop[l].pc \in {"probe_stats", "probe_list"}
    /\ IF kind = "std"
       THEN /\ loop' = [loop EXCEPT ![l].pc = "sleep"]
            /\ terminated' = terminated
       ELSE /\ loop' = loop
            /\ terminated' = TRUE
    /\ UNCHANGED <<now, probeVars, callers, alertVars, max_history_size_, system_history_, data_mutex_,
                   collecting_, collection_thread_, data_callback_, spawned, caller,
                   pushed>>

\* std::lock_guard lock(data_mutex_); system_history_.push_back(stats);
LoopStorePush(l) ==
    /\ ~terminated
    /\ loop[l].pc = "store"
    /\ data_mutex_ = NoThread
    /\ data_mutex_' = l
    /\ system_history_' = Append(system_history_, loop[l].stats)
    /\ pushed' = Append(pushed, loop[l].stats)
    /\ loop' = [loop EXCEPT ![l].pc = "evict"]
    /\ UNCHANGED <<now, probeVars, callers, alertVars, max_history_size_, collecting_, collection_thread_,
                   data_callback_, spawned, caller, terminated>>

\* if (system_history_.size() > max_history_size_) system_history_.pop_front();
Evicted_none(h) == h

Evicted_ge(h) == IF Len(h) >= max_history_size_ THEN Tail(h) ELSE h

Evicted(h) == IF Len(h) > max_history_size_ THEN Tail(h) ELSE h

\* The store without the end of the block: data_mutex_ stays locked.
LoopStoreEvict_keeplock(l) ==
    /\ ~terminated
    /\ loop[l].pc = "evict"
    /\ data_mutex_ = l
    /\ system_history_' = Evicted(system_history_)
    /\ data_mutex_' = l
    /\ loop' = [loop EXCEPT ![l].pc = "alerts"]
    /\ checkAlerts(l, loop[l].stats, loop[l].processes)
    /\ UNCHANGED <<now, probeVars, callers, thresholds_, last_alerts_, fired, alert_callback_, mutex_, max_history_size_,
                   collecting_, collection_thread_, data_callback_, spawned, caller,
                   terminated, pushed>>

\* The eviction, the end of the locked block, and the entry into
\* alert_system_->checkAlerts(stats, processes).
LoopStoreEvict(l) ==
    /\ ~terminated
    /\ loop[l].pc = "evict"
    /\ data_mutex_ = l
    /\ system_history_' = Evicted(system_history_)
    /\ data_mutex_' = NoThread
    /\ loop' = [loop EXCEPT ![l].pc = "alerts"]
    /\ checkAlerts(l, loop[l].stats, loop[l].processes)
    /\ UNCHANGED <<now, probeVars, callers, thresholds_, last_alerts_, fired, alert_callback_, mutex_, max_history_size_,
                   collecting_, collection_thread_, data_callback_, spawned, caller,
                   terminated, pushed>>

\* The tick without lines 803-805: the data callback is never entered.
LoopAlertsReturn_nocallback(l) ==
    /\ ~terminated
    /\ loop[l].pc = "alerts"
    /\ ev[l].stage = "return"
    /\ ev' = [ev EXCEPT ![l] = EvIdle]
    /\ loop' = [loop EXCEPT ![l].pc = "sleep"]
    /\ UNCHANGED <<now, probeVars, callers, thresholds_, last_alerts_, fired, alert_callback_, mutex_, max_history_size_,
                   system_history_, data_mutex_, collecting_, collection_thread_,
                   data_callback_, spawned, caller, terminated, pushed>>

\* checkAlerts returns (its result is discarded); if (data_callback_) the
\* data callback is entered.
LoopAlertsReturn(l) ==
    /\ ~terminated
    /\ loop[l].pc = "alerts"
    /\ ev[l].stage = "return"
    /\ ev' = [ev EXCEPT ![l] = EvIdle]
    /\ loop' = [loop EXCEPT ![l].pc = IF data_callback_ THEN "data_cb" ELSE "sleep"]
    /\ UNCHANGED <<now, probeVars, callers, thresholds_, last_alerts_, fired, alert_callback_, mutex_, max_history_size_,
                   system_history_, data_mutex_, collecting_, collection_thread_,
                   data_callback_, spawned, caller, terminated, pushed>>

\* An alert callback whose std::exception is caught around the call itself:
\* checkAlerts goes on with its next check.
LoopAlertCallbackThrows_inner(l, kind) ==
    /\ ~terminated
    /\ loop[l].pc = "alerts"
    /\ ev[l].stage \in Checks /\ ev[l].step = "cb"
    /\ IF kind = "std"
       THEN /\ loop' = loop
            /\ ev' = [ev EXCEPT ![l] = NextCheck(ev[l])]
            /\ terminated' = terminated
       ELSE /\ loop' = loop
            /\ ev' = ev
            /\ terminated' = TRUE
    /\ UNCHANGED <<now, probeVars, callers, thresholds_, last_alerts_, fired, alert_callback_, mutex_, max_history_size_,
                   system_history_, data_mutex_, collecting_, collection_thread_,
                   data_callback_, spawned, caller, pushed>>

\* The alert callback throws inside checkAlerts on the collection thread.
LoopAlertCallbackThrows(l, kind) ==
    /\ ~terminated
    /\ loop[l].pc = "alerts"
    /\ ev[l].stage \in Checks /\ ev[l].step = "cb"
    /\ IF kind = "std"
       THEN /\ loop' = [loop EXCEPT ![l].pc = "sleep"]
            /\ ev' = [ev EXCEPT ![l] = EvIdle]
            /\ terminated' = terminated
       ELSE /\ loop' = loop
            /\ ev' = ev
            /\ terminated' = TRUE
    /\ UNCHANGED <<now, probeVars, callers, thresholds_, last_alerts_, fired, alert_callback_, mutex_, max_history_size_,
                   system_history_, data_mutex_, collecting_, collection_thread_,
                   data_callback_, spawned, caller, pushed>>

\* data_callback_(stats, processes) returns.
LoopDataCallbackReturns(l) ==
    /\ ~terminated
    /\ loop[l].pc = "data_cb"
    /\ loop' = [loop EXCEPT ![l].pc = "sleep"]
    /\ UNCHANGED <<now, probeVars, callers, alertVars, max_history_size_, system_history_, data_mutex_,
                   collecting_, collection_thread_, data_callback_, spawned, caller,
                   terminated, pushed>>

\* data_callback_(stats, processes) throws.
LoopDataCallbackThrows(l, kind) ==
    /\ ~terminated
    /\ loop[l].pc = "data_cb"
    /\ IF kind = "std"
       THEN /\ loop' = [loop EXCEPT ![l].pc = "sleep"]
            /\ terminated' = terminated
       ELSE /\ loop' = loop
            /\ terminated' = TRUE
    /\ UNCHANGED <<now, probeVars, callers, alertVars, max_history_size_, system_history_, data_mutex_,
                   collecting_, collection_thread_, data_callback_, spawned, caller,
                   pushed>>

\* A sleep that returns only while collecting_ is set.
LoopSleep_while_collecting(l) ==
    /\ ~terminated
    /\ loop[l].pc = "sleep"
    /\ now < MaxTime /\ collecting_
    /\ now' = now + 1
    /\ loop' = [loop EXCEPT ![l].pc = "check", ![l].sleeps = @ + 1]
    /\ UNCHANGED <<probeVars, callers, alertVars, max_history_size_, system_history_, data_mutex_,
                   collecting_, collection_thread_, data_callback_, spawned, caller,
                   terminated, pushed>>

\* A sleep during which the clock does not move.
LoopSleep_instant(l) ==
    /\ ~terminated
    /\ loop[l].pc = "sleep"
    /\ now < MaxTime \/ ~collecting_
    /\ now' = now
    /\ loop' = [loop EXCEPT ![l].pc = "check", ![l].sleeps = @ + 1]
    /\ UNCHANGED <<probeVars, callers, alertVars, max_history_size_, system_history_, data_mutex_,
                   collecting_, collection_thread_, data_callback_, spawned, caller,
                   terminated, pushed>>

\* std::this_thread::sleep_for(collection_interval_).  The clock of the
\* collector counts collection intervals: it has moved on by one when the
\* sleep returns.  At MaxTime the sleep returns only to let a stopped loop
\* end.
LoopSleep(l) ==
    /\ ~terminated
    /\ loop[l].pc = "sleep"
    /\ now < MaxTime \/ ~collecting_
    /\ now' = IF now < MaxTime THEN now + 1 ELSE now
    /\ loop' = [loop EXCEPT ![l].pc = "check", ![l].sleeps = @ + 1]
    /\ UNCHANGED <<probeVars, callers, alertVars, max_history_size_, system_history_, data_mutex_,
                   collecting_, collection_thread_, data_callback_, spawned, caller,
                   terminated, pushed>>

(***************************************************************************)
(* The public methods of DataCollector, called by the client thread.       *)
(* caller.ret is what its latest call returned.                            *)
(***************************************************************************)
NoRet ==
    [op |-> "none", count |-> 0, stats |-> ZeroStats, history |-> <<>>,
     thresholds |-> AlertThresholds, ok |-> FALSE]

\* startCollection: if (collecting_.load()) return;
startCollection_unguarded ==
    /\ ~terminated
    /\ caller.pc = "idle"
    /\ caller' = [pc |-> "start_set", ret |-> NoRet]
    /\ UNCHANGED <<now, probeVars, callers, alertVars, max_history_size_, system_history_, data_mutex_,
                   collecting_, collection_thread_, data_callback_, loop, spawned,
                   terminated, pushed>>

startCollection ==
    /\ ~terminated
    /\ caller.pc = "idle"
    /\ caller' = [pc |-> IF collecting_ THEN "start_return" ELSE "start_set",
                  ret |-> NoRet]
    /\ UNCHANGED <<now, probeVars, callers, alertVars, max_history_size_, system_history_, data_mutex_,
                   collecting_, collection_thread_, data_callback_, loop, spawned,
                   terminated, pushed>>

\* startCollection: the return taken when collecting_ was already set.
startCollectionReturn ==
    /\ ~terminated
    /\ caller.pc = "start_return"
    /\ caller' = [caller EXCEPT !.pc = "idle"]
    /\ UNCHANGED <<now, probeVars, callers, alertVars, max_history_size_, system_history_, data_mutex_,
                   collecting_, collection_thread_, data_callback_, loop, spawned,
                   terminated, pushed>>

\* startCollection: collecting_ = true;
startCollectionSet ==
    /\ ~terminated
    /\ caller.pc = "start_set"
    /\ collecting_' = TRUE
    /\ caller' = [caller EXCEPT !.pc = "start_spawn"]
    /\ UNCHANGED <<now, probeVars, callers, alertVars, max_history_size_, system_history_, data_mutex_,
                   collection_thread_, data_callback_, loop, spawned, terminated,
                   pushed>>

\* A start that begins with an empty history and an empty cooldown map.
startCollectionSpawn_fresh ==
    /\ ~terminated
    /\ caller.pc = "start_spawn"
    /\ spawned' = spawned + 1
    /\ loop' = [loop EXCEPT ![LoopId(spawned + 1)].pc = "check"]
    /\ collection_thread_' = LoopId(spawned + 1)
    /\ system_history_' = <<>>
    /\ last_alerts_' = <<>>
    /\ caller' = [caller EXCEPT !.pc = "idle"]
    /\ UNCHANGED <<now, probeVars, callers, thresholds_, alert_callback_, mutex_, ev, fired,
                   max_history_size_, data_mutex_, collecting_, data_callback_,
                   terminated, pushed>>

\* startCollection: collection_thread_ = std::thread(&collectionLoop, this).
\* The new thread exists from the constructor on; move-assigning to a
\* std::thread that is still joinable calls std::terminate.
startCollectionSpawn ==
    /\ ~terminated
    /\ caller.pc = "start_spawn"
    /\ spawned' = spawned + 1
    /\ loop' = [loop EXCEPT ![LoopId(spawned + 1)].pc = "check"]
    /\ IF collection_thread_ = NoThread
       THEN /\ collection_thread_' = LoopId(spawned + 1)
            /\ terminated' = terminated
       ELSE /\ collection_thread_' = collection_thread_
            /\ terminated' = TRUE
    /\ caller' = [caller EXCEPT !.pc = "idle"]
    /\ UNCHANGED <<now, probeVars, callers, alertVars, max_history_size_, system_history_, data_mutex_,
                   collecting_, data_callback_, pushed>>

\* stopCollection without the joinable() test.
stopCollection_alwaysjoin ==
    /\ ~terminated
    /\ caller.pc = "idle"
    /\ collecting_' = FALSE
    /\ caller' = [pc |-> "join", ret |-> NoRet]
    /\ UNCHANGED <<now, probeVars, callers, alertVars, max_history_size_, system_history_, data_mutex_,
                   collection_thread_, data_callback_, loop, spawned, terminated,
                   pushed>>

\* stopCollection: collecting_ = false; if (collection_thread_.joinable())
stopCollection ==
    /\ ~terminated
    /\ caller.pc = "idle"
    /\ collecting_' = FALSE
    /\ caller' = [pc |-> IF collection_thread_ # NoThread THEN "join" ELSE "stop_return",
                  ret |-> NoRet]
    /\ UNCHANGED <<now, probeVars, callers, alertVars, max_history_size_, system_history_, data_mutex_,
                   collection_thread_, data_callback_, loop, spawned, terminated,
                   pushed>>

\* stopCollection returns without joining: the thread was not joinable.
stopCollectionReturn ==
    /\ ~terminated
    /\ caller.pc = "stop_return"
    /\ caller' = [caller EXCEPT !.pc = "idle"]
    /\ UNCHANGED <<now, probeVars, callers, alertVars, max_history_size_, system_history_, data_mutex_,
                   collecting_, collection_thread_, data_callback_, loop, spawned,
                   terminated, pushed>>

\* A join that returns without waiting for the thread to finish.
stopCollectionJoin_nowait ==
    /\ ~terminated
    /\ caller.pc = "join"
    /\ collection_thread_ # NoThread
    /\ collection_thread_' = NoThread
    /\ caller' = [caller EXCEPT !.pc = "idle"]
    /\ UNCHANGED <<now, probeVars, callers, alertVars, max_history_size_, system_history_, data_mutex_,
                   collecting_, data_callback_, loop, spawned, terminated, pushed>>

\* stopCollection: collection_thread_.join() returns once the thread has
\* finished; the std::thread is no longer joinable.
stopCollectionJoin ==
    /\ ~terminated
    /\ caller.pc = "join"
    /\ collection_thread_ # NoThread
    /\ loop[collection_thread_].pc = "exited"
    /\ collection_thread_' = NoThread
    /\ caller' = [caller EXCEPT !.pc = "idle"]
    /\ UNCHANGED <<now, probeVars, callers, alertVars, max_history_size_, system_history_, data_mutex_,
                   collecting_, data_callback_, loop, spawned, terminated, pushed>>

\* ~DataCollector: stopCollection() is entered; collecting_ = false and the
\* joinable() test.
Destructor ==
    /\ ~terminated
    /\ caller.pc = "idle"
    /\ collecting_' = FALSE
    /\ caller' = [pc |-> IF collection_thread_ # NoThread THEN "dtor_join" ELSE "dtor_members",
                  ret |-> NoRet]
    /\ UNCHANGED <<now, probeVars, callers, alertVars, max_history_size_, system_history_, data_mutex_,
                   collection_thread_, data_callback_, loop, spawned, terminated,
                   pushed>>

\* ~DataCollector: the join of its stopCollection returns.
DestructorJoin ==
    /\ ~terminated
    /\ caller.pc = "dtor_join"
    /\ collection_thread_ # NoThread
    /\ loop[collection_thread_].pc = "exited"
    /\ collection_thread_' = NoThread
    /\ caller' = [caller EXCEPT !.pc = "dtor_members"]
    /\ UNCHANGED <<now, probeVars, callers, alertVars, max_history_size_, system_history_, data_mutex_,
                   collecting_, data_callback_, loop, spawned, terminated, pushed>>

\* ~DataCollector: the members are destroyed after the body; destroying a
\* std::thread that is joinable calls std::terminate.
DestructorMembers ==
    /\ ~terminated
    /\ caller.pc = "dtor_members"
    /\ terminated' = (collection_thread_ # NoThread)
    /\ caller' = [caller EXCEPT !.pc = "destroyed"]
    /\ UNCHANGED <<now, probeVars, callers, alertVars, max_history_size_, system_history_, data_mutex_,
                   collecting_, collection_thread_, data_callback_, loop, spawned,
                   pushed>>

LatestSystemStats_front(h) == IF h = <<>> THEN SystemStats ELSE h[1]

LatestSystemStats(h) == IF h = <<>> THEN SystemStats ELSE h[Len(h)]

\* getLatestSystemStats: the lock is taken and the return value is built.
getLatestSystemStats ==
    /\ ~terminated
    /\ caller.pc = "idle"
    /\ data_mutex_ = NoThread
    /\ data_mutex_' = MainThread
    /\ caller' = [pc |-> "returned",
                  ret |-> [op |-> "getLatestSystemStats", count |-> 0,
                           stats |-> LatestSystemStats(system_history_),
                           history |-> <<>>, thresholds |-> AlertThresholds,
                           ok |-> FALSE]]
    /\ UNCHANGED <<now, probeVars, callers, alertVars, max_history_size_, system_history_,
                   collecting_, collection_thread_, data_callback_, loop, spawned,
                   terminated, pushed>>

\* The vector getSystemHistory(count) builds: all of the deque when count is
\* 0 or at least its size, else the range [end() - count, end()).
SystemHistory_first(h, count) ==
    IF count = 0 \/ count >= Len(h) THEN h
    ELSE [k \in 1..count |-> h[k]]

SystemHistory(h, count) ==
    IF count = 0 \/ count >= Len(h) THEN h
    ELSE [k \in 1..count |-> h[Len(h) - count + k]]

\* getSystemHistory(count): the lock is taken and the return value is built.
getSystemHistory(count) ==
    /\ ~terminated
    /\ caller.pc = "idle"
    /\ data_mutex_ = NoThread
    /\ data_mutex_' = MainThread
    /\ caller' = [pc |-> "returned",
                  ret |-> [op |-> "getSystemHistory", count |-> count,
                           stats |-> ZeroStats,
                           history |-> SystemHistory(system_history_, count),
                           thresholds |-> AlertThresholds, ok |-> FALSE]]
    /\ UNCHANGED <<now, probeVars, callers, alertVars, max_history_size_, system_history_,
                   collecting_, collection_thread_, data_callback_, loop, spawned,
                   terminated, pushed>>

\* The end of an accessor of the history: the lock_guard releases
\* data_mutex_ and the value goes to the client, which is then free to make
\* its next call.
AccessorReturns ==
    /\ ~terminated
    /\ caller.pc = "returned"
    /\ data_mutex_ = MainThread
    /\ data_mutex_' = NoThread
    /\ caller' = [pc |-> "idle", ret |-> NoRet]
    /\ UNCHANGED <<now, probeVars, callers, alertVars, max_history_size_, system_history_,
                   collecting_, collection_thread_, data_callback_, loop, spawned,
                   terminated, pushed>>

\* A clearHistory that also forgets the cooldown map.
clearHistory_cooldowns ==
    /\ ~terminated
    /\ caller.pc = "idle"
    /\ data_mutex_ = NoThread
    /\ data_mutex_' = MainThread
    /\ system_history_' = <<>>
    /\ pushed' = <<>>
    /\ last_alerts_' = <<>>
    /\ caller' = [pc |-> "returned", ret |-> [NoRet EXCEPT !.op = "clearHistory"]]
    /\ UNCHANGED <<now, probeVars, callers, thresholds_, alert_callback_, mutex_, ev, fired,
                   max_history_size_, collecting_, collection_thread_,
                   data_callback_, loop, spawned, terminated>>

\* clearHistory: the lock is taken and system_history_.clear() is done.
clearHistory ==
    /\ ~terminated
    /\ caller.pc = "idle"
    /\ data_mutex_ = NoThread
    /\ data_mutex_' = MainThread
    /\ system_history_' = <<>>
    /\ pushed' = <<>>
    /\ caller' = [pc |-> "returned", ret |-> [NoRet EXCEPT !.op = "clearHistory"]]
    /\ UNCHANGED <<now, probeVars, callers, alertVars, max_history_size_, collecting_,
                   collection_thread_, data_callback_, loop, spawned, terminated>>

\* AlertSystem::getThresholds: the lock is taken and thresholds_ is copied.
getThresholds ==
    /\ ~terminated
    /\ caller.pc = "idle"
    /\ mutex_ = NoThread
    /\ mutex_' = MainThread
    /\ caller' = [pc |-> "returned",
                  ret |-> [NoRet EXCEPT !.op = "getThresholds",
                                        !.thresholds = thresholds_]]
    /\ UNCHANGED <<now, probeVars, callers, thresholds_, last_alerts_, fired, alert_callback_, ev,
                   max_history_size_, system_history_, data_mutex_, collecting_,
                   collection_thread_, data_callback_, loop, spawned, terminated,
                   pushed>>

\* The end of getThresholds: the lock_guard releases mutex_.
getThresholdsReturns ==
    /\ ~terminated
    /\ caller.pc = "returned"
    /\ mutex_ = MainThread
    /\ mutex_' = NoThread
    /\ caller' = [pc |-> "idle", ret |-> NoRet]
    /\ UNCHANGED <<now, probeVars, callers, thresholds_, last_alerts_, fired, alert_callback_, ev,
                   max_history_size_, system_history_, data_mutex_, collecting_,
                   collection_thread_, data_callback_, loop, spawned, terminated,
                   pushed>>

\* setDataCallback: data_callback_ = callback.
setDataCallback ==
    /\ ~terminated
    /\ caller.pc = "idle"
    /\ data_callback_' = TRUE
    /\ caller' = [caller EXCEPT !.ret = NoRet]
    /\ UNCHANGED <<now, probeVars, callers, alertVars, max_history_size_, system_history_, data_mutex_,
                   collecting_, collection_thread_, loop, spawned, terminated, pushed>>

\* DataCollector::setAlertCallback forwards to the alert system.
setAlertCallback ==
    /\ caller.pc = "idle"
    /\ AlertSystem_setAlertCallback

\* DataCollector::setAlertThresholds forwards to the alert system.
setAlertThresholds(th) ==
    /\ caller.pc = "idle"
    /\ setThresholds(th)

\* The clock moves on.
AdvanceClock ==
    /\ ~terminated
    /\ now < MaxClock
    /\ now' = now + 1
    /\ UNCHANGED <<probeVars, callers, alertVars, collectorVars>>

(***************************************************************************)
(* The collector and its client.                                           *)
(***************************************************************************)
\* The thresholds a client sets: a higher CPU threshold and a cooldown
\* period short enough to pass within the time bound.
ThresholdChoices ==
    {[AlertThresholds EXCEPT !.cpu_threshold = 90, !.cooldown_period = 2]}

\* What a user callback can throw: an exception derived from std::exception
\* or an object of any other type.
ExceptionKinds == {"std", "other"}

\* What the platform readers can throw: the exceptions of std::stoull,
\* std::string::substr and allocation, all derived from std::exception.
ProbeExceptionKinds == {"std"}

\* The state after DataCollector(max_history, interval): an empty history,
\* not collecting, no thread, default thresholds, an empty cooldown map and
\* empty callbacks.
Init ==
    /\ now = 0
    /\ thresholds_ = AlertThresholds
    /\ last_alerts_ = <<>>
    /\ fired = <<>>
    /\ alert_callback_ = FALSE
    /\ mutex_ = NoThread
    /\ ev = [t \in Threads |-> EvIdle]
    /\ max_history_size_ \in 0..MaxCap
    /\ system_history_ = <<>>
    /\ data_mutex_ = NoThread
    /\ collecting_ = FALSE
    /\ collection_thread_ = NoThread
    /\ data_callback_ = FALSE
    /\ loop = [l \in LoopIds |-> LoopUnborn]
    /\ spawned = 0
    /\ caller = [pc |-> "idle", ret |-> NoRet]
    /\ callers = [c \in AlertClients |-> "idle"]
    /\ terminated = FALSE
    /\ pushed = <<>>
    /\ info_collector_ = NewInfoCollector
    /\ readings = [io |-> <<>>, cpu |-> <<>>,
                   mem |-> [stats |-> ZeroStats, processes |-> <<>>]]
    /\ monitor = NewProcessMonitor
    /\ sampled = [pid \in MonitorPids |-> <<>>]

LoopStep(l) ==
    \/ LoopCheck(l)
    \/ \E r \in ProbeReadings, list \in ProbeLists : LoopGetSystemStats(l, r, list)
    \/ \E list \in ProbeLists : LoopGetProcessList(l, list)
    \/ \E kind \in ProbeExceptionKinds : LoopProbeThrows(l, kind)
    \/ LoopStorePush(l)
    \/ LoopStoreEvict(l)
    \/ CompareStep(l)
    \/ shouldAlertLock(l)
    \/ shouldAlert(l)
    \/ FireStep(l)
    \/ CallbackReturns(l)
    \/ LoopAlertsReturn(l)
    \/ \E kind \in ExceptionKinds : LoopAlertCallbackThrows(l, kind)
    \/ LoopDataCallbackReturns(l)
    \/ \E kind \in ExceptionKinds : LoopDataCallbackThrows(l, kind)
    \/ LoopSleep(l)

\* The collection threads and a client that starts the collector once, may
\* stop it, registers callbacks and reads and clears the history.
Next ==
    \/ \E l \in LoopIds : LoopStep(l)
    \/ (collecting_ \/ spawned = 0) /\ startCollection
    \/ startCollectionReturn
    \/ startCollectionSet
    \/ startCollectionSpawn
    \/ stopCollection
    \/ stopCollectionReturn
    \/ stopCollectionJoin
    \/ getLatestSystemStats
    \/ AccessorReturns
    \/ \E count \in 0..(MaxCap + 1) : getSystemHistory(count)
    \/ clearHistory
    \/ setDataCallback
    \/ setAlertCallback

Spec == Init /\ [][Next]_vars

(***************************************************************************)
(* The life cycle: a client that starts and stops the collector up to      *)
(* MaxStarts times, on a collector of capacity one.                        *)
(***************************************************************************)
InitLife == Init /\ max_history_size_ = 1

NextLife ==
    \/ \E l \in LoopIds : LoopStep(l)
    \/ (collecting_ \/ spawned < MaxStarts) /\ startCollection
    \/ startCollectionReturn
    \/ startCollectionSet
    \/ startCollectionSpawn
    \/ stopCollection
    \/ stopCollectionReturn
    \/ stopCollectionJoin
    \/ setDataCallback
    \/ setAlertCallback

SpecLife == InitLife /\ [][NextLife]_vars

\* Starting once, stopping, and destroying the collector.
NextDestroy ==
    \/ \E l \in LoopIds : LoopStep(l)
    \/ (collecting_ \/ spawned = 0) /\ startCollection
    \/ startCollectionReturn
    \/ startCollectionSet
    \/ startCollectionSpawn
    \/ stopCollection
    \/ stopCollectionReturn
    \/ stopCollectionJoin
    \/ Destructor
    \/ DestructorJoin
    \/ DestructorMembers
    \/ setDataCallback
    \/ setAlertCallback

SpecDestroy == InitLife /\ [][NextDestroy]_vars

\* The callbacks are registered, then startCollection is called and, as the
\* client's next call, stopCollection.
NextStartStop ==
    \/ \E l \in LoopIds : LoopStep(l)
    \/ (spawned = 0 /\ ~collecting_) /\ setDataCallback
    \/ (spawned = 0 /\ ~collecting_) /\ setAlertCallback
    \/ spawned = 0 /\ startCollection
    \/ startCollectionSet
    \/ startCollectionSpawn
    \/ collection_thread_ # NoThread /\ stopCollection
    \/ stopCollectionJoin

SpecStartStop == InitLife /\ [][NextStartStop]_vars

\* The steps of a collection thread whose probe and callbacks return.
LoopRuns(l) ==
    \/ LoopCheck(l)
    \/ \E r \in ProbeReadings, list \in ProbeLists : LoopGetSystemStats(l, r, list)
    \/ \E list \in ProbeLists : LoopGetProcessList(l, list)
    \/ LoopStorePush(l)
    \/ LoopStoreEvict(l)
    \/ CompareStep(l)
    \/ shouldAlertLock(l)
    \/ shouldAlert(l)
    \/ FireStep(l)
    \/ CallbackReturns(l)
    \/ LoopAlertsReturn(l)
    \/ LoopDataCallbackReturns(l)
    \/ LoopSleep(l)

\* Start and stop with a probe and callbacks that always return.
NextReturning ==
    \/ \E l \in LoopIds : LoopRuns(l)
    \/ (spawned = 0 /\ ~collecting_) /\ setDataCallback
    \/ (spawned = 0 /\ ~collecting_) /\ setAlertCallback
    \/ spawned = 0 /\ startCollection
    \/ startCollectionSet
    \/ startCollectionSpawn
    \/ collection_thread_ # NoThread /\ stopCollection
    \/ stopCollectionJoin

\* Every thread that can take a step eventually takes one: the collection
\* threads run, and join returns once the thread has finished.
SpecReturning ==
    /\ InitLife
    /\ [][NextReturning]_vars
    /\ \A l \in LoopIds : WF_vars(LoopRuns(l))
    /\ WF_vars(stopCollectionJoin)

(***************************************************************************)
(* The alert system on its own: client threads call checkAlerts with       *)
(* snapshots and process lists of their choice while the clock runs and    *)
(* the thresholds and the callback are set.                                *)
(***************************************************************************)
\* A snapshot with the given metrics.
StatsOf(cpu, mem, read, write) ==
    [ZeroStats EXCEPT !.cpu_percent = cpu, !.memory_percent = mem,
                      !.memory_total_bytes = 100, !.memory_used_bytes = mem,
                      !.disk_io_read_rate = read, !.disk_io_write_rate = write]

\* Snapshots at and just above the thresholds.
AlertStats ==
    {StatsOf(80, 85, 60 * BytesPerMB, 40 * BytesPerMB),
     StatsOf(81, 86, 60 * BytesPerMB, 40 * BytesPerMB + 1),
     StatsOf(91, 85, 0, 0)}

\* Process lists with entries at and above the per-process threshold.
AlertProcLists ==
    {<<>>,
     <<ProcessInfo(1, "a", 60, 0)>>,
     <<ProcessInfo(2, "b", 90, 0), ProcessInfo(3, "c", 50, 0), ProcessInfo(1, "a", 51, 0)>>}

\* What two concurrent clients evaluate.
RaceStats == {StatsOf(91, 86, 0, 0)}

RaceProcLists == {<<>>}

\* What a client of the threshold checks passes to setThresholds: a higher
\* CPU threshold, the cooldown period as constructed.
ThresholdRaises == {[AlertThresholds EXCEPT !.cpu_threshold = 90]}

\* A client enters checkAlerts.
ClientCheckAlerts(t, stats, processes) ==
    /\ checkAlerts(t, stats, processes)
    /\ UNCHANGED <<now, probeVars, callers, thresholds_, last_alerts_, fired, alert_callback_, mutex_, collectorVars>>

\* The alert callback throws: the exception leaves checkAlerts.
ClientCallbackThrows(t) ==
    /\ ev[t].stage \in Checks /\ ev[t].step = "cb"
    /\ ev' = [ev EXCEPT ![t] = EvIdle]
    /\ UNCHANGED <<now, probeVars, callers, thresholds_, last_alerts_, fired, alert_callback_, mutex_, collectorVars>>

\* return alerts; the client has the vector and drops it.
ClientCheckAlertsReturns(t) ==
    /\ ev[t].stage = "return"
    /\ ev' = [ev EXCEPT ![t] = EvIdle]
    /\ UNCHANGED <<now, probeVars, callers, thresholds_, last_alerts_, fired, alert_callback_, mutex_, collectorVars>>

\* The steps of a client thread inside checkAlerts.
ClientStep(t) ==
    \/ CompareStep(t)
    \/ shouldAlertLock(t)
    \/ shouldAlert(t)
    \/ FireStep(t)
    \/ CallbackReturns(t)
    \/ ClientCallbackThrows(t)
    \/ ClientCheckAlertsReturns(t)

InitAlert == Init /\ max_history_size_ = 1

\* One client evaluating snapshots and process lists of every kind.
NextAlert ==
    \/ \E stats \in AlertStats, processes \in AlertProcLists :
            ClientCheckAlerts("c1", stats, processes)
    \/ ClientStep("c1")
    \/ AdvanceClock
    \/ \E th \in ThresholdRaises : setThresholds(th)
    \/ AlertSystem_setAlertCallback

SpecAlert == InitAlert /\ [][NextAlert]_vars

\* Two clients evaluating at the same time.
NextAlertRace ==
    \/ \E t \in AlertClients :
            \E stats \in RaceStats, processes \in RaceProcLists :
                ClientCheckAlerts(t, stats, processes)
    \/ \E t \in AlertClients : ClientStep(t)
    \/ AdvanceClock
    \/ \E th \in ThresholdChoices : setThresholds(th)
    \/ AlertSystem_setAlertCallback

SpecAlertRace == InitAlert /\ [][NextAlertRace]_vars

\* The memory percentages of a reading: getSystemStats computes that of the
\* system from what getMemoryInfo reported, collectionLoop those of the
\* processes from the snapshot's memory total.
MemoryPercentages(r, list) ==
    /\ readings' = [readings EXCEPT !.mem =
            [stats |-> getSystemStats(r, list),
             processes |-> WithMemoryPercent(list, getSystemStats(r, list).memory_total_bytes)]]
    /\ UNCHANGED <<now, info_collector_, monitorVars, alertVars, collectorVars>>

(***************************************************************************)
(* The readers on their own: a client calls them with what the platform    *)
(* reports, counters that move either way and a clock that may stand still *)
(* or be set back.                                                         *)
(***************************************************************************)
\* The byte counters summed from /proc/diskstats.
IOCounterValues ==
    {[read_bytes |-> 0, write_bytes |-> 0],
     [read_bytes |-> 512, write_bytes |-> 0],
     [read_bytes |-> 1536, write_bytes |-> 1024]}

\* The first line of /proc/stat.
CPUTimesValues ==
    {[user |-> 10, nice |-> 0, system |-> 5, idle |-> 20, iowait |-> 5,
      irq |-> 0, softirq |-> 0, steal |-> 0],
     [user |-> 40, nice |-> 0, system |-> 15, idle |-> 30, iowait |-> 15,
      irq |-> 0, softirq |-> 0, steal |-> 0],
     [user |-> 10, nice |-> 0, system |-> 5, idle |-> 40, iowait |-> 25,
      irq |-> 0, softirq |-> 0, steal |-> 0]}

NextProbe ==
    \/ \E cur \in IOCounterValues, at \in 0..MaxTick : getIOStats(cur, at)
    \/ \E current_times \in CPUTimesValues : getCPUUsageLinux(current_times)
    \/ getCPUUsageLinuxUnread
    \/ \E r \in ProbeReadings, list \in ProbeLists : MemoryPercentages(r, list)

SpecProbe == InitLife /\ [][NextProbe]_vars

(***************************************************************************)
(* A probe that may never return: the collection thread is under no        *)
(* obligation to leave getSystemStats or getProcessList, while the client  *)
(* keeps calling the accessors.                                            *)
(***************************************************************************)
\* The steps of a collection thread of a collector on which no callback is
\* registered.
LoopWithoutCallbacks(l) ==
    \/ LoopCheck(l)
    \/ \E r \in ProbeReadings, list \in ProbeLists : LoopGetSystemStats(l, r, list)
    \/ \E list \in ProbeLists : LoopGetProcessList(l, list)
    \/ \E kind \in ProbeExceptionKinds : LoopProbeThrows(l, kind)
    \/ LoopStorePush(l)
    \/ LoopStoreEvict(l)
    \/ CompareStep(l)
    \/ shouldAlertLock(l)
    \/ shouldAlert(l)
    \/ FireStep(l)
    \/ LoopAlertsReturn(l)
    \/ LoopSleep(l)

NextStall ==
    \/ \E l \in LoopIds : LoopWithoutCallbacks(l)
    \/ spawned = 0 /\ startCollection
    \/ startCollectionSet
    \/ startCollectionSpawn
    \/ \E th \in ThresholdRaises : setAlertThresholds(th)
    \/ getLatestSystemStats
    \/ \E count \in 0..1 : getSystemHistory(count)
    \/ clearHistory
    \/ AccessorReturns
    \/ getThresholds
    \/ getThresholdsReturns

\* The client thread is scheduled: it finishes the call it is in, and it
\* makes each of the accessor calls again and again.  Nothing is assumed of
\* the collection thread.
SpecStall ==
    /\ InitLife
    /\ [][NextStall]_vars
    /\ WF_vars(AccessorReturns)
    /\ WF_vars(getThresholdsReturns)
    /\ SF_vars(getLatestSystemStats)
    /\ SF_vars(\E count \in 0..1 : getSystemHistory(count))
    /\ SF_vars(clearHistory)
    /\ SF_vars(getThresholds)

(***************************************************************************)
(* Ticks over process lists of several entries.  The readers leave every   *)
(* entry's cpu_percent at the constructor's 0.0, so the sort of a tick     *)
(* compares entries that are all equal under its comparator.               *)
(***************************************************************************)
\* Process lists of two and of three entries, as the readers build them.  No
\* two of the lists hold the same entries, so the list a sorted list came
\* from is determined by its entries.
SortLists ==
    {<<ProcessInfo(1, "a", 0, 10), ProcessInfo(2, "b", 0, 20)>>,
     <<ProcessInfo(1, "a", 0, 10), ProcessInfo(2, "b", 0, 20),
       ProcessInfo(3, "c", 0, 30)>>}

\* The steps of a collection thread whose probe returns the lists above, in
\* a collector on which no callback is registered.
LoopOverLists(l) ==
    \/ LoopCheck(l)
    \/ \E r \in ProbeReadings, list \in SortLists : LoopGetSystemStats(l, r, list)
    \/ \E list \in SortLists : LoopGetProcessList(l, list)
    \/ \E kind \in ProbeExceptionKinds : LoopProbeThrows(l, kind)
    \/ LoopStorePush(l)
    \/ LoopStoreEvict(l)
    \/ CompareStep(l)
    \/ shouldAlertLock(l)
    \/ shouldAlert(l)
    \/ FireStep(l)
    \/ LoopAlertsReturn(l)
    \/ LoopSleep(l)

NextSort ==
    \/ \E l \in LoopIds : LoopOverLists(l)
    \/ spawned = 0 /\ startCollection
    \/ startCollectionSet
    \/ startCollectionSpawn
    \/ collection_thread_ # NoThread /\ stopCollection
    \/ stopCollectionJoin

SpecSort == InitLife /\ [][NextSort]_vars

(***************************************************************************)
(* The process monitor on its own: the constructor's refresh, then the     *)
(* refreshes of the timer and of the Refresh button.                       *)
(***************************************************************************)
\* What the platform reports of a process: its kernel + user time and its
\* working set.  The time of a pid goes down when the pid is reused.
MonitorReadings(pid) ==
    {[pid |-> pid, totalTime |-> 0, memoryUsage |-> 10],
     [pid |-> pid, totalTime |-> 2, memoryUsage |-> 20]}

\* The processes a refresh can find, in the order of EnumProcesses: any of
\* the pids may be missing (exited, or OpenProcess or GetProcessTimes
\* failed).
MonitorEnumerations ==
    {<<>>}
        \cup {<<a>> : a \in MonitorReadings(1) \cup MonitorReadings(2)}
        \cup {<<a, b>> : a \in MonitorReadings(1), b \in MonitorReadings(2)}

NextMonitor ==
    \/ \E found \in MonitorEnumerations, currentTime \in 1..MaxTick :
            UpdateProcessList(found, currentTime)
    \/ UpdateProcessListFails

SpecMonitor == InitLife /\ [][NextMonitor]_vars

(***************************************************************************)
(* startCollection and stopCollection called from several client threads.  *)
(* Neither method takes a lock: the load of collecting_, its store and the *)
(* assignment of collection_thread_ are separate steps of the caller.      *)
(***************************************************************************)
\* The collector's variables that these calls leave alone.
CallersFrame ==
    UNCHANGED <<now, probeVars, alertVars, max_history_size_, system_history_,
                data_mutex_, data_callback_, caller, pushed>>

\* The calls of startCollection that can still construct a thread.
Starting == {c \in AlertClients : callers[c] \in {"start_set", "start_spawn"}}

\* startCollection: if (collecting_.load()) return;
CallerStartCollection(c) ==
    /\ ~terminated
    /\ callers[c] = "idle"
    /\ collecting_ \/ spawned + Cardinality(Starting) < MaxStarts
    /\ callers' = [callers EXCEPT ![c] = IF collecting_ THEN "start_return"
                                         ELSE "start_set"]
    /\ UNCHANGED <<collecting_, collection_thread_, loop, spawned, terminated>>
    /\ CallersFrame

\* startCollection: collecting_ = true;
CallerStartCollectionSet(c) ==
    /\ ~terminated
    /\ callers[c] = "start_set"
    /\ collecting_' = TRUE
    /\ callers' = [callers EXCEPT ![c] = "start_spawn"]
    /\ UNCHANGED <<collection_thread_, loop, spawned, terminated>>
    /\ CallersFrame

\* startCollection: collection_thread_ = std::thread(&collectionLoop, this).
\* Move-assigning to a std::thread that is still joinable calls
\* std::terminate.
CallerStartCollectionSpawn(c) ==
    /\ ~terminated
    /\ callers[c] = "start_spawn"
    /\ spawned' = spawned + 1
    /\ loop' = [loop EXCEPT ![LoopId(spawned + 1)].pc = "check"]
    /\ IF collection_thread_ = NoThread
       THEN /\ collection_thread_' = LoopId(spawned + 1)
            /\ terminated' = terminated
       ELSE /\ collection_thread_' = collection_thread_
            /\ terminated' = TRUE
    /\ callers' = [callers EXCEPT ![c] = "idle"]
    /\ UNCHANGED collecting_
    /\ CallersFrame

\* stopCollection: collecting_ = false; if (collection_thread_.joinable())
CallerStopCollection(c) ==
    /\ ~terminated
    /\ callers[c] = "idle"
    /\ collecting_' = FALSE
    /\ callers' = [callers EXCEPT ![c] = IF collection_thread_ # NoThread THEN "join"
                                         ELSE "stop_return"]
    /\ UNCHANGED <<collection_thread_, loop, spawned, terminated>>
    /\ CallersFrame

\* startCollection or stopCollection returns without having touched the
\* thread.
CallerReturns(c) ==
    /\ ~terminated
    /\ callers[c] \in {"start_return", "stop_return"}
    /\ callers' = [callers EXCEPT ![c] = "idle"]
    /\ UNCHANGED <<collecting_, collection_thread_, loop, spawned, terminated>>
    /\ CallersFrame

\* stopCollection: collection_thread_.join() returns once the thread has
\* finished.
CallerStopCollectionJoin(c) ==
    /\ ~terminated
    /\ callers[c] = "join"
    /\ collection_thread_ # NoThread
    /\ loop[collection_thread_].pc = "exited"
    /\ collection_thread_' = NoThread
    /\ callers' = [callers EXCEPT ![c] = "idle"]
    /\ UNCHANGED <<collecting_, loop, spawned, terminated>>
    /\ CallersFrame

\* stopCollection: join() on a std::thread that another caller's join has
\* meanwhile made non-joinable.  Two joins of one std::thread are a data
\* race; the call returns, std::system_error leaves it, or the process
\* aborts.
CallerStopCollectionJoinRaced(c) ==
    /\ ~terminated
    /\ callers[c] = "join"
    /\ collection_thread_ = NoThread
    /\ callers' = [callers EXCEPT ![c] = "idle"]
    /\ terminated' \in BOOLEAN
    /\ UNCHANGED <<collecting_, collection_thread_, loop, spawned>>
    /\ CallersFrame

NextCallers ==
    \/ \E l \in LoopIds : LoopWithoutCallbacks(l)
    \/ \E c \in AlertClients : CallerStartCollection(c)
    \/ \E c \in AlertClients : CallerStartCollectionSet(c)
    \/ \E c \in AlertClients : CallerStartCollectionSpawn(c)
    \/ \E c \in AlertClients : CallerStopCollection(c)
    \/ \E c \in AlertClients : CallerReturns(c)
    \/ \E c \in AlertClients : CallerStopCollectionJoin(c)
    \/ \E c \in AlertClients : CallerStopCollectionJoinRaced(c)

SpecCallers == InitLife /\ [][NextCallers]_vars

(***************************************************************************)
(* loadHistoryFromFile, called by the client thread while the collection   *)
(* thread may be running.                                                  *)
(***************************************************************************)
\* Entry k of a history file: the metrics written by saveHistoryToFile and
\* the time at which the snapshot was taken.
FileEntry(k) ==
    [ZeroStats EXCEPT !.timestamp = k, !.cpu_percent = 10 * k,
                      !.memory_percent = k, !.memory_used_bytes = k,
                      !.memory_total_bytes = 100, !.process_count = k]

\* The files a load can meet: one that cannot be opened, one that is not
\* JSON, files of 0 to MaxCap + 1 entries, a file whose entries are in the
\* opposite order, and a file whose entry `bad` holds a member of the wrong
\* type (asDouble or asUInt64 throws Json::LogicError).
HistoryFiles ==
    {[opens |-> FALSE, parses |-> FALSE, entries |-> <<>>, bad |-> 0],
     [opens |-> TRUE, parses |-> FALSE, entries |-> <<>>, bad |-> 0],
     [opens |-> TRUE, parses |-> TRUE, entries |-> <<FileEntry(2), FileEntry(1)>>,
      bad |-> 0],
     [opens |-> TRUE, parses |-> TRUE, entries |-> <<FileEntry(1), FileEntry(2)>>,
      bad |-> 2]}
        \cup {[opens |-> TRUE, parses |-> TRUE,
               entries |-> [k \in 1..n |-> FileEntry(k)], bad |-> 0] :
                  n \in 0..(MaxCap + 1)}

\* The SystemStats built from an entry: a default-constructed one, whose
\* timestamp is now(), with the seven metrics of the entry; the entry's
\* timestamp is not read.
LoadedStats(entry) == [entry EXCEPT !.timestamp = now]

\* The first n entries of a file as loaded.
Loaded(file, n) == [k \in 1..n |-> LoadedStats(file.entries[k])]

\* A load that appends to the history it finds.
LoadedHistory_append(previous, file) ==
    previous \o (IF file.bad = 0 THEN Loaded(file, Len(file.entries))
                 ELSE Loaded(file, file.bad - 1))

\* What the locked part of loadHistoryFromFile makes of the history it
\* finds: system_history_.clear(), then the entries of the file, or those
\* before the entry that throws.
LoadedHistory(previous, file) ==
    IF file.bad = 0 THEN Loaded(file, Len(file.entries))
    ELSE Loaded(file, file.bad - 1)

\* loadHistoryFromFile on a file that cannot be opened or is not JSON:
\* return false before the lock is taken.
loadHistoryFromFileFails(file) ==
    /\ ~terminated
    /\ caller.pc = "idle"
    /\ ~(file.opens /\ file.parses)
    /\ caller' = [pc |-> "load_returned",
                  ret |-> [NoRet EXCEPT !.op = "loadHistoryFromFile"]]
    /\ UNCHANGED <<now, probeVars, callers, alertVars, max_history_size_, system_history_,
                   data_mutex_, collecting_, collection_thread_, data_callback_, loop,
                   spawned, terminated, pushed>>

\* The false of a load that took no lock reaches the client.
loadHistoryFromFileReturns ==
    /\ ~terminated
    /\ caller.pc = "load_returned"
    /\ caller' = [pc |-> "idle", ret |-> NoRet]
    /\ UNCHANGED <<now, probeVars, callers, alertVars, max_history_size_, system_history_,
                   data_mutex_, collecting_, collection_thread_, data_callback_, loop,
                   spawned, terminated, pushed>>

\* loadHistoryFromFile on a file that parsed: under data_mutex_ the history
\* is cleared and one SystemStats per entry is pushed; true is returned, or
\* false from the handler when an entry threw.
loadHistoryFromFile(file) ==
    /\ ~terminated
    /\ caller.pc = "idle"
    /\ file.opens /\ file.parses
    /\ data_mutex_ = NoThread
    /\ data_mutex_' = MainThread
    /\ system_history_' = LoadedHistory(system_history_, file)
    /\ pushed' = system_history_'
    /\ caller' = [pc |-> "returned",
                  ret |-> [NoRet EXCEPT !.op = "loadHistoryFromFile",
                                        !.ok = (file.bad = 0)]]
    /\ UNCHANGED <<now, probeVars, callers, alertVars, max_history_size_, collecting_,
                   collection_thread_, data_callback_, loop, spawned, terminated>>

\* A client that starts the collector once and loads history files while it
\* runs, on collectors of every capacity.
NextLoad ==
    \/ \E l \in LoopIds : LoopWithoutCallbacks(l)
    \/ spawned = 0 /\ startCollection
    \/ startCollectionSet
    \/ startCollectionSpawn
    \/ \E file \in HistoryFiles : loadHistoryFromFileFails(file)
    \/ loadHistoryFromFileReturns
    \/ \E file \in HistoryFiles : loadHistoryFromFile(file)
    \/ AccessorReturns

SpecLoad == Init /\ [][NextLoad]_vars

(***************************************************************************)
(* Ticks whose snapshot exceeds several thresholds, with callbacks that    *)
(* were registered before the start and may throw.                         *)
(***************************************************************************)
\* Readings above the CPU threshold, and above both the CPU and the memory
\* threshold.
HighReadings ==
    {[cpu |-> 90, used |-> 40, total |-> 100, read |-> 0, write |-> 0],
     [cpu |-> 90, used |-> 90, total |-> 100, read |-> 0, write |-> 0]}

\* The steps of a collection thread whose probe returns those readings.
LoopOverHighReadings(l) ==
    \/ LoopCheck(l)
    \/ \E r \in HighReadings, list \in ProbeLists : LoopGetSystemStats(l, r, list)
    \/ \E list \in ProbeLists : LoopGetProcessList(l, list)
    \/ \E kind \in ProbeExceptionKinds : LoopProbeThrows(l, kind)
    \/ LoopStorePush(l)
    \/ LoopStoreEvict(l)
    \/ CompareStep(l)
    \/ shouldAlertLock(l)
    \/ shouldAlert(l)
    \/ FireStep(l)
    \/ CallbackReturns(l)
    \/ LoopAlertsReturn(l)
    \/ \E kind \in ExceptionKinds : LoopAlertCallbackThrows(l, kind)
    \/ LoopDataCallbackReturns(l)
    \/ \E kind \in ExceptionKinds : LoopDataCallbackThrows(l, kind)
    \/ LoopSleep(l)

NextThrowing ==
    \/ \E l \in LoopIds : LoopOverHighReadings(l)
    \/ (spawned = 0 /\ ~collecting_) /\ setDataCallback
    \/ (spawned = 0 /\ ~collecting_) /\ setAlertCallback
    \/ spawned = 0 /\ startCollection
    \/ startCollectionSet
    \/ startCollectionSpawn
    \/ collection_thread_ # NoThread /\ stopCollection
    \/ stopCollectionJoin

SpecThrowing == InitLife /\ [][NextThrowing]_vars

(***************************************************************************)
(* Callbacks registered while the collection thread runs.  The assignment  *)
(* of a std::function is not one step: the client is inside it from        *)
(* ...Begin to ...End.  A read of the object by the collection thread      *)
(* during the assignment is a data race; it finds the old target, the new  *)
(* one, or an object that cannot be called.                                *)
(***************************************************************************)
\* setDataCallback: the assignment data_callback_ = callback begins.
setDataCallbackBegin ==
    /\ ~terminated
    /\ caller.pc = "idle"
    /\ caller' = [pc |-> "set_data_callback", ret |-> NoRet]
    /\ UNCHANGED <<now, probeVars, callers, alertVars, max_history_size_, system_history_,
                   data_mutex_, collecting_, collection_thread_, data_callback_, loop,
                   spawned, terminated, pushed>>

\* setDataCallback: the assignment is complete.
setDataCallbackEnd ==
    /\ ~terminated
    /\ caller.pc = "set_data_callback"
    /\ data_callback_' = TRUE
    /\ caller' = [pc |-> "idle", ret |-> NoRet]
    /\ UNCHANGED <<now, probeVars, callers, alertVars, max_history_size_, system_history_,
                   data_mutex_, collecting_, collection_thread_, loop, spawned,
                   terminated, pushed>>

\* setAlertCallback: std::lock_guard lock(mutex_); the assignment
\* alert_callback_ = callback begins.
setAlertCallbackBegin ==
    /\ ~terminated
    /\ caller.pc = "idle"
    /\ mutex_ = NoThread
    /\ mutex_' = MainThread
    /\ caller' = [pc |-> "set_alert_callback", ret |-> NoRet]
    /\ UNCHANGED <<now, probeVars, callers, thresholds_, last_alerts_, alert_callback_, ev,
                   fired, max_history_size_, system_history_, data_mutex_, collecting_,
                   collection_thread_, data_callback_, loop, spawned, terminated,
                   pushed>>

\* setAlertCallback: the assignment is complete and mutex_ is released.
setAlertCallbackEnd ==
    /\ ~terminated
    /\ caller.pc = "set_alert_callback"
    /\ mutex_ = MainThread
    /\ mutex_' = NoThread
    /\ alert_callback_' = TRUE
    /\ caller' = [pc |-> "idle", ret |-> NoRet]
    /\ UNCHANGED <<now, probeVars, callers, thresholds_, last_alerts_, ev, fired,
                   max_history_size_, system_history_, data_mutex_, collecting_,
                   collection_thread_, data_callback_, loop, spawned, terminated,
                   pushed>>

\* if (data_callback_) data_callback_(stats, processes), read while the
\* client is assigning data_callback_: the new target is entered, or the
\* call of a half-written object aborts the process.  (Finding the old
\* target is LoopAlertsReturn.)
LoopAlertsReturnRaced(l) ==
    /\ ~terminated
    /\ caller.pc = "set_data_callback"
    /\ loop[l].pc = "alerts"
    /\ ev[l].stage = "return"
    /\ \/ /\ ev' = [ev EXCEPT ![l] = EvIdle]
          /\ loop' = [loop EXCEPT ![l].pc = "data_cb"]
          /\ terminated' = terminated
       \/ /\ ev' = ev
          /\ loop' = loop
          /\ terminated' = TRUE
    /\ UNCHANGED <<now, probeVars, callers, thresholds_, last_alerts_, fired, alert_callback_, mutex_, max_history_size_,
                   system_history_, data_mutex_, collecting_, collection_thread_,
                   data_callback_, spawned, caller, pushed>>

\* if (alert_callback_) alert_callback_(alert), read while the client is
\* assigning alert_callback_ under mutex_, which checkAlerts does not hold
\* here: the new target is entered, or the process aborts.  (Finding the
\* old target is FireStep.)
FireStepRaced(t) ==
    /\ ~terminated
    /\ caller.pc = "set_alert_callback"
    /\ ev[t].stage \in Checks /\ ev[t].step = "fire"
    /\ LET alert == [type |-> AlertType(ev[t]), timestamp |-> now,
                     message |-> AlertMessage(ev[t])]
       IN \/ /\ ev' = [ev EXCEPT ![t] = [ev[t] EXCEPT !.alerts = Append(@, alert),
                                                       !.called = Append(@, alert),
                                                       !.step = "cb"]]
             /\ terminated' = terminated
          \/ /\ ev' = [ev EXCEPT ![t].alerts = Append(@, alert)]
             /\ terminated' = TRUE
    /\ UNCHANGED <<now, probeVars, callers, thresholds_, last_alerts_, fired, alert_callback_, mutex_,
                   max_history_size_, system_history_, data_mutex_, collecting_,
                   collection_thread_, data_callback_, loop, spawned, caller, pushed>>

\* A client that starts the collector once and registers its callbacks at
\* any time.
NextRegister ==
    \/ \E l \in LoopIds : LoopStep(l)
    \/ \E l \in LoopIds : LoopAlertsReturnRaced(l)
    \/ \E l \in LoopIds : FireStepRaced(l)
    \/ spawned = 0 /\ startCollection
    \/ startCollectionSet
    \/ startCollectionSpawn
    \/ setDataCallbackBegin
    \/ setDataCallbackEnd
    \/ setAlertCallbackBegin
    \/ setAlertCallbackEnd

SpecRegister == InitLife /\ [][NextRegister]_vars

(***************************************************************************)
(* Restarts: a client that starts the collector when it is stopped, stops  *)
(* it when it has a thread, up to MaxStarts starts, and reads the whole    *)
(* history; the collector has capacity MaxCap and no callbacks.            *)
(***************************************************************************)
InitRestart == Init /\ max_history_size_ = MaxCap

NextRestart ==
    \/ \E l \in LoopIds : LoopWithoutCallbacks(l)
    \/ (~collecting_ /\ spawned < MaxStarts) /\ startCollection
    \/ startCollectionSet
    \/ startCollectionSpawn
    \/ collection_thread_ # NoThread /\ stopCollection
    \/ stopCollectionJoin
    \/ getSystemHistory(0)
    \/ AccessorReturns

SpecRestart == InitRestart /\ [][NextRestart]_vars

(***************************************************************************)
(* Callbacks that call stopCollection, that is stopCollection on the       *)
(* collection thread itself.  The thread runs from the construction of the *)
(* std::thread on, before startCollection has assigned it to               *)
(* collection_thread_.                                                     *)
(***************************************************************************)
\* startCollection: std::thread(&collectionLoop, this) is constructed and
\* the thread runs.
startCollectionCreate ==
    /\ ~terminated
    /\ caller.pc = "start_spawn"
    /\ spawned' = spawned + 1
    /\ loop' = [loop EXCEPT ![LoopId(spawned + 1)].pc = "check"]
    /\ caller' = [caller EXCEPT !.pc = "start_assign"]
    /\ UNCHANGED <<now, probeVars, callers, alertVars, max_history_size_, system_history_, data_mutex_,
                   collecting_, collection_thread_, data_callback_, terminated,
                   pushed>>

\* startCollection: the temporary is move-assigned to collection_thread_,
\* which is not joinable.
startCollectionAssign ==
    /\ ~terminated
    /\ caller.pc = "start_assign"
    /\ collection_thread_ = NoThread
    /\ collection_thread_' = LoopId(spawned)
    /\ caller' = [caller EXCEPT !.pc = "idle"]
    /\ UNCHANGED <<now, probeVars, callers, alertVars, max_history_size_, system_history_, data_mutex_,
                   collecting_, data_callback_, loop, spawned, terminated, pushed>>

\* What collection_thread_.joinable() returns on the collection thread: the
\* state of collection_thread_, and either value while startCollection is
\* assigning it.
SelfJoinable ==
    IF caller.pc = "start_assign" THEN BOOLEAN ELSE {collection_thread_ # NoThread}

\* Whether stopCollection leaves the callback by the std::system_error of
\* join(): when collection_thread_ is joinable, unless the callback catches
\* the exception itself.
SelfStopThrows ==
    {joinable /\ ~caught : joinable \in SelfJoinable, caught \in BOOLEAN}

\* A stopCollection on the collection thread whose join waits for the
\* thread itself.
LoopDataCallbackStops_blocks(l) ==
    /\ ~terminated
    /\ loop[l].pc = "data_cb"
    /\ collecting_' = FALSE
    /\ \E thrown \in SelfStopThrows :
          loop' = IF thrown THEN [loop EXCEPT ![l].pc = "self_join"] ELSE loop
    /\ ev' = ev
    /\ UNCHANGED <<now, probeVars, callers, thresholds_, last_alerts_, fired, alert_callback_, mutex_, max_history_size_,
                   system_history_, data_mutex_, collection_thread_,
                   data_callback_, spawned, caller, terminated, pushed>>

\* The data callback calls stopCollection: collecting_ = false; when
\* collection_thread_ is joinable, join() on the calling thread throws
\* std::system_error (resource_deadlock_would_occur), which leaves the
\* callback, unless the callback catches it, and is caught by the loop's
\* catch (std::exception); when it is not, stopCollection returns into the
\* callback.
LoopDataCallbackStops(l) ==
    /\ ~terminated
    /\ loop[l].pc = "data_cb"
    /\ collecting_' = FALSE
    /\ \E thrown \in SelfStopThrows :
          loop' = IF thrown THEN [loop EXCEPT ![l].pc = "sleep"] ELSE loop
    /\ ev' = ev
    /\ UNCHANGED <<now, probeVars, callers, thresholds_, last_alerts_, fired, alert_callback_, mutex_, max_history_size_,
                   system_history_, data_mutex_, collection_thread_,
                   data_callback_, spawned, caller, terminated, pushed>>

\* The alert callback calls stopCollection inside checkAlerts: the same,
\* and the std::system_error leaves checkAlerts as well.
LoopAlertCallbackStops(l) ==
    /\ ~terminated
    /\ loop[l].pc = "alerts"
    /\ ev[l].stage \in Checks /\ ev[l].step = "cb"
    /\ collecting_' = FALSE
    /\ \E thrown \in SelfStopThrows :
          IF thrown
          THEN /\ loop' = [loop EXCEPT ![l].pc = "sleep"]
               /\ ev' = [ev EXCEPT ![l] = EvIdle]
          ELSE /\ loop' = loop
               /\ ev' = ev
    /\ UNCHANGED <<now, probeVars, callers, thresholds_, last_alerts_, fired, alert_callback_, mutex_, max_history_size_,
                   system_history_, data_mutex_, collection_thread_,
                   data_callback_, spawned, caller, terminated, pushed>>

\* The steps of a collection thread whose probe returns readings above the
\* thresholds and whose callbacks may call stopCollection and then return.
LoopSelfStopping(l) ==
    \/ LoopCheck(l)
    \/ \E r \in HighReadings, list \in ProbeLists : LoopGetSystemStats(l, r, list)
    \/ \E list \in ProbeLists : LoopGetProcessList(l, list)
    \/ LoopStorePush(l)
    \/ LoopStoreEvict(l)
    \/ CompareStep(l)
    \/ shouldAlertLock(l)
    \/ shouldAlert(l)
    \/ FireStep(l)
    \/ CallbackReturns(l)
    \/ LoopAlertCallbackStops(l)
    \/ LoopAlertsReturn(l)
    \/ LoopDataCallbackReturns(l)
    \/ LoopDataCallbackStops(l)
    \/ LoopSleep(l)

\* The client registers the callbacks and starts the collector; only the
\* callbacks stop it.
NextSelfStop ==
    \/ \E l \in LoopIds : LoopSelfStopping(l)
    \/ (spawned = 0 /\ ~collecting_) /\ setDataCallback
    \/ (spawned = 0 /\ ~collecting_) /\ setAlertCallback
    \/ (spawned = 0 /\ ~collecting_) /\ startCollection
    \/ startCollectionSet
    \/ startCollectionCreate
    \/ startCollectionAssign

\* The collection thread is scheduled, its sleep ends, and the callbacks
\* return.
SpecSelfStop ==
    /\ InitLife
    /\ [][NextSelfStop]_vars
    /\ \A l \in LoopIds : WF_vars(LoopSelfStopping(l))

(***************************************************************************)
(* Properties of the system history (checked under Spec).                  *)
(***************************************************************************)
\* The last n entries of a sequence, in order.
LastN(s, n) == SubSeq(s, Len(s) - n + 1, Len(s))

\* The client holds the value that the named read accessor has just built.
Returned(op) == caller.pc = "returned" /\ caller.ret.op = op

\* C1: whenever data_mutex_ is not held the system history holds at most
\* max_history_size_ entries; the locked block of a tick appends the tick's
\* snapshot, and when the history already held max_history_size_ entries
\* the block removes exactly the oldest entry and nothing else.
C1_HistoryBounded ==
    /\ [](data_mutex_ = NoThread => Len(system_history_) <= max_history_size_)
    /\ [][\A l \in LoopIds :
            /\ (loop[l].pc = "store" /\ loop'[l].pc = "evict")
                  => system_history_' = Append(system_history_, loop[l].stats)
            /\ (loop[l].pc = "evict" /\ loop'[l].pc = "alerts")
                  => system_history_' =
                        IF Len(system_history_) - 1 = max_history_size_
                        THEN Tail(system_history_)
                        ELSE system_history_]_vars

\* A tick has just evicted the oldest of three snapshots from a history of
\* capacity two.
C1_Witness ==
    \E l \in LoopIds :
        /\ loop[l].pc = "alerts" /\ ev[l].stage = "cpu" /\ ev[l].step = "cmp"
        /\ max_history_size_ = 2
        /\ Len(pushed) = 3
        /\ system_history_ = <<pushed[2], pushed[3]>>
        /\ pushed[3] = loop[l].stats

\* C2: for capacity N >= 1, once more than N ticks have stored a snapshot
\* with no clearHistory in between, getSystemHistory(0) returns exactly the
\* snapshots of the last N of those ticks, oldest first.
C2_LastNPushed ==
    (/\ Returned("getSystemHistory")
     /\ caller.ret.count = 0
     /\ max_history_size_ >= 1
     /\ Len(pushed) > max_history_size_)
        => /\ Len(caller.ret.history) = max_history_size_
           /\ caller.ret.history = LastN(pushed, max_history_size_)

\* getSystemHistory(0) has returned two different snapshots, the last two of
\* at least three stored.
C2_Witness ==
    /\ Returned("getSystemHistory")
    /\ caller.ret.count = 0
    /\ max_history_size_ = 2
    /\ Len(pushed) >= 3
    /\ caller.ret.history = <<pushed[Len(pushed) - 1], pushed[Len(pushed)]>>
    /\ pushed[Len(pushed) - 1] # pushed[Len(pushed)]
    /\ pushed[Len(pushed) - 2] # pushed[Len(pushed) - 1]

\* C3: getSystemHistory(count) returns the last count entries, oldest first,
\* when 0 < count < size, and all entries when count = 0 or count >= size;
\* the call leaves the history as it was.
C3_HistoryCopy ==
    /\ [](Returned("getSystemHistory") =>
            caller.ret.history =
                IF 0 < caller.ret.count /\ caller.ret.count < Len(system_history_)
                THEN SubSeq(system_history_,
                            Len(system_history_) - caller.ret.count + 1,
                            Len(system_history_))
                ELSE system_history_)
    /\ [][(caller.pc = "idle" /\ caller'.pc = "returned"
                /\ caller'.ret.op = "getSystemHistory")
            => system_history_' = system_history_]_vars

\* getSystemHistory(1) has returned the newer of two different entries.
C3_Witness ==
    /\ Returned("getSystemHistory")
    /\ caller.ret.count = 1
    /\ Len(system_history_) = 2
    /\ system_history_[1] # system_history_[2]
    /\ caller.ret.history = <<system_history_[2]>>

\* A snapshot whose metrics are all zero.
DefaultMetrics(stats) == [stats EXCEPT !.timestamp = 0] = ZeroStats

\* C4 as claimed: getLatestSystemStats returns a default snapshot while no
\* tick has stored a snapshot, and the snapshot of the latest tick once a
\* tick has stored one.
C4_LatestIsLastTick ==
    Returned("getLatestSystemStats") =>
        IF pushed = <<>>
        THEN DefaultMetrics(caller.ret.stats)
        ELSE caller.ret.stats = pushed[Len(pushed)]

\* C4, amended: getLatestSystemStats returns the newest entry of the history.
\* With max_history_size_ >= 1 that is the snapshot of the latest tick that
\* stored one since construction or the last clearHistory; a default
\* snapshot (all metrics zero, timestamp of the call) is returned when there
\* is no such tick, and always when max_history_size_ = 0.
C4_LatestIsNewestEntry ==
    Returned("getLatestSystemStats") =>
        IF pushed # <<>> /\ max_history_size_ >= 1
        THEN caller.ret.stats = pushed[Len(pushed)]
        ELSE DefaultMetrics(caller.ret.stats) /\ caller.ret.stats.timestamp <= now

\* getLatestSystemStats has returned the snapshot of the latest of several
\* ticks, which differs from the one before it.
C4_Witness ==
    /\ Returned("getLatestSystemStats")
    /\ max_history_size_ = 2
    /\ Len(pushed) >= 3
    /\ caller.ret.stats = pushed[Len(pushed)]
    /\ caller.ret.stats # pushed[Len(pushed) - 1]
    /\ ~DefaultMetrics(caller.ret.stats)

(***************************************************************************)
(* Properties of the cooldown (checked under SpecAlertRace).               *)
(***************************************************************************)
\* C5: two firings of one key are never closer than the cooldown period C
\* read by the later one, so evaluations above the threshold at t0 and
\* t0 + e with e < C fire once; and an evaluation above the threshold fires
\* exactly when the key has never fired or now - (time of its last firing)
\* >= C, so the evaluation at t0 + C fires the second alert.
C5_Cooldown ==
    /\ [](\A k \in DOMAIN fired : \A n \in 2..Len(fired[k]) :
            fired[k][n].at - fired[k][n - 1].at >= fired[k][n].cooldown)
    /\ [][\A t \in Threads :
            (ev[t].step = "should" /\ ev'[t] # ev[t]) =>
                \A k \in {AlertKey(ev[t])} :
                    IF \/ FiredUnder(k) = <<>>
                       \/ now - FiredUnder(k)[Len(FiredUnder(k))].at
                            >= thresholds_.cooldown_period
                    THEN /\ ev'[t] = [ev[t] EXCEPT !.step = "fire"]
                         /\ k \in DOMAIN fired'
                         /\ Len(fired'[k]) = Len(FiredUnder(k)) + 1
                         /\ fired'[k][Len(fired'[k])].at = now
                    ELSE /\ ev'[t].step = "cmp"
                         /\ ev'[t].alerts = ev[t].alerts
                         /\ fired' = fired]_vars

\* The CPU key fired at time 0 and again at time 2 under a cooldown period
\* of 2, the second firing being at its check now, while an evaluation of the
\* same snapshot made in between has returned without an alert.
C5_Witness ==
    /\ "cpu" \in DOMAIN fired
    /\ Len(fired["cpu"]) = 2
    /\ fired["cpu"][1].at = 0
    /\ fired["cpu"][2] = [at |-> 2, cooldown |-> 2]
    /\ now = 2
    /\ ev["c1"].stage = "cpu" /\ ev["c1"].step = "fire"
    /\ ev["c2"].stage = "return" /\ ev["c2"].alerts = <<>>
    /\ ev["c2"].stats.cpu_percent > thresholds_.cpu_threshold

\* C6: a check that decides to fire records the time under the key in the
\* same step, so while the alert is being built and while the callback runs
\* the key already carries the time of that firing or a later one; a check
\* of the same key by another thread during the callback, within the
\* cooldown period, does not fire.
C6_RecordedBeforeCallback ==
    /\ [](\A t \in Threads :
            ev[t].step \in {"fire", "cb"} =>
                /\ AlertKey(ev[t]) \in DOMAIN last_alerts_
                /\ last_alerts_[AlertKey(ev[t])] <= now
                /\ last_alerts_[AlertKey(ev[t])]
                      = FiredUnder(AlertKey(ev[t]))[Len(FiredUnder(AlertKey(ev[t])))].at)
    /\ [][\A t \in Threads :
            /\ (ev[t].step = "should" /\ ev'[t].step = "fire")
                  => \A k \in {AlertKey(ev[t])} :
                        k \in DOMAIN last_alerts_' /\ last_alerts_'[k] = now
            /\ \A u \in Threads \ {t} :
                  (/\ ev[t].step = "cb"
                   /\ ev[u].step = "should" /\ ev'[u] # ev[u]
                   /\ AlertKey(ev[u]) = AlertKey(ev[t])
                   /\ AlertKey(ev[t]) \in DOMAIN last_alerts_
                   /\ now - last_alerts_[AlertKey(ev[t])] < thresholds_.cooldown_period)
                      => /\ ev'[u].step = "cmp"
                         /\ ev'[u].alerts = ev[u].alerts
                         /\ last_alerts_' = last_alerts_]_vars

\* One client is inside the callback of the only CPU alert fired so far;
\* the other client, with the same snapshot, has passed its CPU check
\* without an alert.
C6_Witness ==
    /\ ev["c1"].stage = "cpu" /\ ev["c1"].step = "cb"
    /\ "cpu" \in DOMAIN fired /\ Len(fired["cpu"]) = 1
    /\ "memory" \notin DOMAIN fired
    /\ ev["c2"].stage = "memory" /\ ev["c2"].step = "cmp"
    /\ ev["c2"].alerts = <<>>
    /\ ev["c2"].stats.cpu_percent > thresholds_.cpu_threshold

(***************************************************************************)
(* Properties of one evaluation (checked under SpecAlert).                 *)
(***************************************************************************)
SystemKeys == {"cpu", "memory", "io"}

\* The metric of a system-level check is strictly above its threshold.
Above(k, stats) ==
    CASE k = "cpu" -> stats.cpu_percent > thresholds_.cpu_threshold
      [] k = "memory" -> stats.memory_percent > thresholds_.memory_threshold
      [] k = "io" -> stats.disk_io_read_rate + stats.disk_io_write_rate
                        > 1048576 * thresholds_.io_threshold

\* The key carries a firing time less than the cooldown period ago.
InCooldown(k) ==
    k \in DOMAIN last_alerts_ /\ now - last_alerts_[k] < thresholds_.cooldown_period

\* last_alerts_ with the key set to the time.
Recorded(k, time) ==
    [j \in DOMAIN last_alerts_ \cup {k} |-> IF j = k THEN time ELSE last_alerts_[j]]

TypeOfKey(k) ==
    CASE k = "cpu" -> "CPU" [] k = "memory" -> "MEMORY" [] k = "io" -> "IO"

\* C7: a system-level check goes on to the cooldown test exactly when its
\* metric is strictly greater than the threshold (never when equal), the
\* cooldown test lets it fire exactly when the key is not in cooldown and
\* then records the time under the key, and what fires is one alert of the
\* check's type; in every other case no alert is added and nothing is
\* recorded.
C7_SystemAlertIff ==
    [][\A t \in Threads : \A k \in SystemKeys :
         (ev[t].stage = k /\ ev'[t] # ev[t]) =>
            /\ ev[t].step = "cmp" =>
                  /\ (ev'[t].stage = k /\ ev'[t].step = "should")
                        <=> Above(k, ev[t].stats)
                  /\ ev'[t].alerts = ev[t].alerts
                  /\ last_alerts_' = last_alerts_
            /\ ev[t].step = "should" =>
                  /\ (ev'[t].stage = k /\ ev'[t].step = "fire") <=> ~InCooldown(k)
                  /\ ev'[t].alerts = ev[t].alerts
                  /\ last_alerts_' =
                        IF InCooldown(k) THEN last_alerts_ ELSE Recorded(k, now)
            /\ ev[t].step = "fire" =>
                  /\ Len(ev'[t].alerts) = Len(ev[t].alerts) + 1
                  /\ SubSeq(ev'[t].alerts, 1, Len(ev[t].alerts)) = ev[t].alerts
                  /\ ev'[t].alerts[Len(ev'[t].alerts)].type = TypeOfKey(k)
                  /\ ev'[t].alerts[Len(ev'[t].alerts)].timestamp = now
                  /\ last_alerts_' = last_alerts_]_vars

\* An evaluation has fired the CPU alert, its time recorded under "cpu", and
\* has passed the memory check without an alert with memory_percent equal to
\* the threshold and "memory" not in cooldown.
C7_Witness ==
    /\ ev["c1"].stage = "io" /\ ev["c1"].step = "cmp"
    /\ Len(ev["c1"].alerts) = 1
    /\ ev["c1"].alerts[1].type = "CPU"
    /\ "cpu" \in DOMAIN last_alerts_
    /\ last_alerts_["cpu"] <= ev["c1"].alerts[1].timestamp
    /\ ev["c1"].stats.memory_percent = thresholds_.memory_threshold
    /\ ~InCooldown("memory")

\* The key of a pid, for the pids of the process lists.
ProcessKey(pid) ==
    CASE pid = 1 -> "process_1" [] pid = 2 -> "process_2" [] pid = 3 -> "process_3"

\* C8: the cooldown test of a process check reads and writes only the key
\* of that process's pid: it fires exactly when that key is not in
\* cooldown, whatever is recorded under the keys of other pids, and records
\* the time under that key alone; so two pids above the threshold, neither
\* key in cooldown, both fire in the same evaluation.
C8_PerPidKeys ==
    /\ [](\A k \in DOMAIN last_alerts_ :
            k \in SystemKeys \cup {ProcessKey(pid) : pid \in 1..3})
    /\ [][\A t \in Threads :
            (ev[t].stage = "process" /\ ev'[t] # ev[t]) =>
                \A k \in {ProcessKey(ev[t].procs[ev[t].i].pid)} :
                    /\ ev[t].step = "cmp" =>
                          (ev'[t].stage = "process" /\ ev'[t].step = "should")
                             <=> ev[t].procs[ev[t].i].cpu_percent > 50
                    /\ ev[t].step = "should" =>
                          /\ ev'[t].step = "fire" <=> ~InCooldown(k)
                          /\ last_alerts_' =
                                IF InCooldown(k) THEN last_alerts_ ELSE Recorded(k, now)
                    /\ ev[t].step = "fire" =>
                          /\ Len(ev'[t].alerts) = Len(ev[t].alerts) + 1
                          /\ ev'[t].alerts[Len(ev'[t].alerts)].type = "PROCESS"
                          /\ ev'[t].alerts[Len(ev'[t].alerts)].message[1]
                                = ev[t].procs[ev[t].i].pid]_vars

\* One evaluation of a list with pids 2 and 1 above the threshold and pid 3
\* at it has fired PROCESS alerts for pid 2 and for pid 1 and for nothing
\* else.
C8_Witness ==
    /\ ev["c1"].stage = "return"
    /\ Len(ev["c1"].procs) = 3
    /\ Len(ev["c1"].alerts) = 2
    /\ ev["c1"].alerts[1].type = "PROCESS" /\ ev["c1"].alerts[1].message[1] = 2
    /\ ev["c1"].alerts[2].type = "PROCESS" /\ ev["c1"].alerts[2].message[1] = 1
    /\ "process_1" \in DOMAIN last_alerts_
    /\ "process_2" \in DOMAIN last_alerts_
    /\ "process_3" \notin DOMAIN last_alerts_

\* The place of an alert in the order of the checks: the system-level types
\* first, then the processes by their index in the list.
Place(alert, procs) ==
    CASE alert.type = "CPU" -> 1
      [] alert.type = "MEMORY" -> 2
      [] alert.type = "IO" -> 3
      [] alert.type = "PROCESS" ->
            3 + CHOOSE i \in 1..Len(procs) : procs[i].pid = alert.message[1]

\* w is s without some of its first elements.
IsSuffix(w, s) ==
    Len(w) <= Len(s) /\ w = SubSeq(s, Len(s) - Len(w) + 1, Len(s))

\* C9: the alerts of an evaluation are in the order CPU, memory, I/O, then
\* processes in list order, each at most once; the callback has been
\* entered with exactly the alerts fired since it was registered, in that
\* order, so with a callback registered before the evaluation the alerts
\* handed to it are the alerts returned; the callback is entered in the
\* step that fires the alert and the evaluation goes on only when it returns.
C9_CallbackOrder ==
    /\ [](\A t \in Threads :
            /\ \A m, n \in 1..Len(ev[t].alerts) :
                  m < n => Place(ev[t].alerts[m], ev[t].procs)
                              < Place(ev[t].alerts[n], ev[t].procs)
            /\ IsSuffix(ev[t].called, ev[t].alerts)
            /\ ev[t].step = "cb" =>
                  /\ ev[t].called # <<>>
                  /\ ev[t].called[Len(ev[t].called)]
                        = ev[t].alerts[Len(ev[t].alerts)])
    /\ [][\A t \in Threads :
            /\ (ev[t].step = "fire" /\ ev'[t] # ev[t]) =>
                  IF alert_callback_
                  THEN /\ ev'[t].step = "cb" /\ ev'[t].stage = ev[t].stage
                       /\ Len(ev'[t].called) = Len(ev[t].called) + 1
                       /\ ev'[t].called[Len(ev'[t].called)]
                             = ev'[t].alerts[Len(ev'[t].alerts)]
                  ELSE ev'[t].called = ev[t].called
            /\ (ev[t].step = "cb" /\ ev'[t] # ev[t] /\ ev'[t].stage # "idle") =>
                  /\ ev'[t].alerts = ev[t].alerts
                  /\ ev'[t].called = ev[t].called
                  /\ ev'[t].step = "cmp"]_vars

\* An evaluation returns five alerts, CPU, MEMORY, IO, pid 2, pid 1, having
\* entered the callback with the same five in the same order.
C9_Witness ==
    /\ ev["c1"].stage = "return"
    /\ Len(ev["c1"].alerts) = 5
    /\ [n \in 1..5 |-> ev["c1"].alerts[n].type]
          = <<"CPU", "MEMORY", "IO", "PROCESS", "PROCESS">>
    /\ ev["c1"].alerts[4].message[1] = 2
    /\ ev["c1"].alerts[5].message[1] = 1
    /\ ev["c1"].called = ev["c1"].alerts

(***************************************************************************)
(* Properties of starting and stopping (checked under SpecLife).           *)
(***************************************************************************)
\* The loops that have been created and have not returned.
AliveLoops == {l \in LoopIds : loop[l].pc \notin {"unborn", "exited"}}

\* C10: startCollection entered while collecting_ is set goes to its return
\* and changes nothing: no thread is created, and collecting_,
\* collection_thread_ and every loop are as they were; with one client
\* thread calling startCollection and stopCollection, at most one
\* collection loop is alive.
C10_StartWhileRunning ==
    /\ [](Cardinality(AliveLoops) <= 1)
    /\ [][/\ (caller.pc = "idle" /\ collecting_)
                => caller'.pc \notin {"start_set", "start_spawn"}
          /\ (caller.pc = "start_return" \/ caller'.pc = "start_return")
                => /\ spawned' = spawned
                   /\ collection_thread_' = collection_thread_
                   /\ caller'.pc \in {"start_return", "idle"}
                   /\ (caller'.pc # caller.pc
                         => UNCHANGED <<loop, collecting_, system_history_>>)]_vars

\* startCollection is at its early return while the second loop, started
\* after the first was stopped and joined, is running.
C10_Witness ==
    /\ caller.pc = "start_return"
    /\ collecting_
    /\ spawned = 2
    /\ loop[LoopId(1)].pc = "exited"
    /\ AliveLoops = {LoopId(2)}
    /\ collection_thread_ = LoopId(2)

\* The collection thread is inside a tick: past the loop condition and
\* before the sleep.
InTick(l) ==
    loop[l].pc \in {"probe_stats", "probe_list", "store", "evict", "alerts", "data_cb"}

\* C11: once stopCollection has returned to the client thread
\* (collection_thread_ is not joinable and the client is outside
\* startCollection's thread creation) every collection thread has returned
\* from collectionLoop and none is inside checkAlerts or a callback; from
\* then up to the thread creation of a later startCollection no collection
\* thread takes a step, so no tick starts and no callback is invoked.
C11_StoppedMeansExited ==
    /\ []((collection_thread_ = NoThread /\ ~terminated) =>
            /\ AliveLoops = {}
            /\ \A l \in LoopIds : ev[l] = EvIdle)
    /\ [][(collection_thread_ = NoThread /\ caller.pc # "start_spawn")
            => (loop' = loop /\ ev' = ev /\ system_history_' = system_history_
                /\ last_alerts_' = last_alerts_)]_vars

\* stopCollection has returned after a run in which the loop stored a
\* snapshot, fired an alert and had a data callback to call: the thread has
\* returned from collectionLoop.
C11_Witness ==
    /\ caller.pc = "idle"
    /\ ~collecting_
    /\ collection_thread_ = NoThread
    /\ spawned = 1
    /\ loop[LoopId(1)].pc = "exited"
    /\ data_callback_ /\ alert_callback_
    /\ "cpu" \in DOMAIN last_alerts_
    /\ system_history_ # <<>>

(***************************************************************************)
(* Properties of stopping and destruction (checked under SpecDestroy).     *)
(***************************************************************************)
\* The collector is Stopped: collecting_ is clear and collection_thread_ is
\* not joinable.
Stopped == ~collecting_ /\ collection_thread_ = NoThread

\* C12: stopCollection entered while the collector is Stopped goes straight
\* to its return, never to the join, and neither the call nor the return
\* changes anything, so a second call after a first has no effect; the
\* destructor, entered while Running or while Stopped, ends with the
\* collection thread joined and without std::terminate.
C12_StopIdempotent ==
    /\ [][/\ (Stopped /\ caller.pc = "idle")
                => caller'.pc \notin {"join", "dtor_join"}
          /\ (caller.pc = "stop_return" \/ caller'.pc = "stop_return")
                => /\ Stopped /\ Stopped'
                   /\ caller'.pc \in {"stop_return", "idle"}
                   /\ UNCHANGED <<now, probeVars, callers, alertVars, max_history_size_,
                                  system_history_, data_mutex_, collecting_,
                                  collection_thread_, data_callback_, loop,
                                  spawned, terminated, pushed>>]_vars
    /\ [](caller.pc \in {"dtor_members", "destroyed"} =>
            /\ Stopped
            /\ AliveLoops = {}
            /\ (caller.pc = "destroyed" => ~terminated))

\* A second stopCollection is at its return after a first one stopped and
\* joined a loop that had stored a snapshot.
C12_Witness ==
    /\ caller.pc = "stop_return"
    /\ spawned = 1
    /\ loop[LoopId(1)].pc = "exited"
    /\ system_history_ # <<>>
    /\ Stopped

(***************************************************************************)
(* Properties of a stop that follows a start (checked under SpecStartStop).*)
(***************************************************************************)
\* C13 as claimed: with stopCollection the client's next call after
\* startCollection, the loop begins at most one tick, however the two
\* threads are interleaved.
C13_AtMostOneTick ==
    \A l \in LoopIds : loop[l].ticks <= 1

\* C13, amended: if stopCollection stores collecting_ = false before the
\* loop's first sleep has returned, the loop has begun at most one tick at
\* that moment; in every case a tick begins only while collecting_ is set,
\* so none begins between the store and the thread's exit, and once
\* stopCollection has returned no collection thread is alive or inside a
\* callback.  Without the condition on the time of the store the loop may
\* begin any number of ticks before a stop that follows the start.
C13_AtMostOneTickWithinFirstInterval ==
    /\ [][\A l \in LoopIds :
            /\ (collecting_ /\ ~collecting_' /\ collection_thread_ = l
                  /\ loop[l].sleeps = 0) => loop[l].ticks <= 1
            /\ loop'[l].ticks # loop[l].ticks
                  => (collecting_ /\ loop'[l].ticks = loop[l].ticks + 1
                        /\ loop[l].pc = "check")]_vars
    /\ [](\A l \in LoopIds :
            /\ (~collecting_ /\ collection_thread_ = l /\ loop[l].sleeps = 0)
                  => loop[l].ticks <= 1
            /\ (collection_thread_ = NoThread /\ spawned > 0)
                  => (loop[l].pc \in {"unborn", "exited"} /\ ev[l] = EvIdle))

\* stopCollection has stored collecting_ = false and waits in join while the
\* loop, before its first sleep, is inside the data callback of its one tick.
C13_Witness ==
    /\ caller.pc = "join"
    /\ ~collecting_
    /\ collection_thread_ = LoopId(1)
    /\ loop[LoopId(1)].pc = "data_cb"
    /\ loop[LoopId(1)].ticks = 1
    /\ loop[LoopId(1)].sleeps = 0

(***************************************************************************)
(* Termination of stopCollection (checked under SpecReturning).            *)
(***************************************************************************)
\* C14: with a probe and callbacks that always return, a stopCollection
\* that has stored collecting_ = false and waits in join eventually
\* returns, the collection thread having left collectionLoop.
C14_StopReturns ==
    (caller.pc = "join") ~>
        (caller.pc = "idle" /\ collection_thread_ = NoThread /\ AliveLoops = {})

\* stopCollection waits in join while the loop is in the interval sleep of
\* its second tick, the data callback having been registered.
C14_Witness ==
    /\ caller.pc = "join"
    /\ collection_thread_ = LoopId(1)
    /\ loop[LoopId(1)].pc = "sleep"
    /\ loop[LoopId(1)].ticks = 2
    /\ data_callback_

(***************************************************************************)
(* Failures inside a tick (checked under Spec).                            *)
(***************************************************************************)
\* C15 as claimed: whatever the probe or a callback throws during a tick is
\* caught inside the loop, so nothing propagates out of the thread function
\* and std::terminate is never called.
C15_FailuresCaught == ~terminated

(***************************************************************************)
(* Failures of the probe (checked under SpecLife).                         *)
(***************************************************************************)
\* A snapshot built from readings that failed: no memory total was read.
FailedReading(stats) == stats.memory_total_bytes = 0

\* C16 as claimed: a tick whose probe failed stores nothing, evaluates no
\* alerts and calls no data callback: no snapshot of failed readings is in
\* the history, and no collection thread is past the probe with one.
C16_FailedProbePublishesNothing ==
    /\ \A k \in 1..Len(system_history_) : ~FailedReading(system_history_[k])
    /\ \A l \in LoopIds :
          loop[l].pc \in {"store", "evict", "alerts", "data_cb"}
              => ~FailedReading(loop[l].stats)

\* C16 for a probe that throws: the step in which the exception reaches the
\* loop's handler takes the thread to the sleep and changes nothing else
\* (history, cooldown map, thresholds, the alert evaluation's frame); from
\* the sleep the thread goes to the loop condition only, after one sleep.
C16_ThrowingProbeSkipsTick ==
    [][\A l \in LoopIds :
         /\ (loop[l].pc \in {"probe_stats", "probe_list"}
               /\ loop'[l].pc \notin {"probe_stats", "probe_list", "store"})
               => /\ loop'[l] = [loop[l] EXCEPT !.pc = "sleep"]
                  /\ UNCHANGED <<system_history_, pushed, last_alerts_, fired,
                                 thresholds_, ev, data_mutex_, terminated>>
         /\ (loop[l].pc = "sleep" /\ loop'[l] # loop[l])
               => loop'[l] = [loop[l] EXCEPT !.pc = "check", !.sleeps = @ + 1]]_vars

\* The probe threw in the first tick of the first loop: the thread is at
\* the sleep, nothing was stored and no alert evaluation was entered.
C16_Witness ==
    /\ loop[LoopId(1)].pc = "sleep"
    /\ loop[LoopId(1)].ticks = 1
    /\ loop[LoopId(1)].sleeps = 0
    /\ pushed = <<>>
    /\ system_history_ = <<>>
    /\ last_alerts_ = <<>>
    /\ ev[LoopId(1)] = EvIdle
    /\ collecting_

(***************************************************************************)
(* The order of a tick (checked under Spec).                               *)
(***************************************************************************)
\* C17: a tick goes from the probe to the store, from the store (which
\* appends the tick's snapshot) to the alert evaluation of that snapshot and
\* process list, from the return of the evaluation to the data callback
\* exactly when one is registered and otherwise to the sleep, and from the
\* data callback to the sleep; the snapshot and the list do not change on
\* the way.  So while the evaluation or the data callback runs the snapshot
\* has been appended: it is the latest snapshot stored, unless clearHistory
\* has emptied the history since.
C17_TickOrder ==
    /\ [](\A l \in LoopIds :
            /\ loop[l].pc \in {"alerts", "data_cb"} =>
                  (pushed # <<>> => pushed[Len(pushed)] = loop[l].stats)
            /\ (loop[l].pc = "alerts" /\ ev[l].stage # "idle") =>
                  (ev[l].stats = loop[l].stats /\ ev[l].procs = loop[l].processes)
            /\ loop[l].pc = "data_cb" => ev[l] = EvIdle)
    /\ [][\A l \in LoopIds :
            /\ (loop[l].pc = "store" /\ loop'[l] # loop[l]) =>
                  /\ loop'[l] = [loop[l] EXCEPT !.pc = "evict"]
                  /\ system_history_' = Append(system_history_, loop[l].stats)
            /\ (loop[l].pc = "evict" /\ loop'[l] # loop[l]) =>
                  /\ loop'[l] = [loop[l] EXCEPT !.pc = "alerts"]
                  /\ ev'[l].stage = "cpu"
                  /\ ev'[l].stats = loop[l].stats
                  /\ ev'[l].procs = loop[l].processes
            /\ (loop[l].pc = "alerts" /\ loop'[l] # loop[l] /\ ev[l].stage = "return") =>
                  loop'[l] = [loop[l] EXCEPT !.pc =
                                 IF data_callback_ THEN "data_cb" ELSE "sleep"]
            /\ (loop[l].pc = "data_cb" /\ loop'[l] # loop[l]) =>
                  loop'[l] = [loop[l] EXCEPT !.pc = "sleep"]
            /\ loop'[l].pc = "data_cb" =>
                  loop[l].pc \in {"data_cb", "alerts"}]_vars

\* The data callback of the second tick is running: the tick's snapshot is
\* the newest entry of the history and its CPU alert has been fired.
C17_Witness ==
    \E l \in LoopIds :
        /\ loop[l].pc = "data_cb"
        /\ loop[l].ticks = 2
        /\ Len(system_history_) = 2
        /\ system_history_[2] = loop[l].stats
        /\ system_history_[1] # system_history_[2]
        /\ loop[l].stats.cpu_percent > thresholds_.cpu_threshold
        /\ "cpu" \in DOMAIN last_alerts_
        /\ last_alerts_["cpu"] = loop[l].stats.timestamp

(***************************************************************************)
(* Locks and user code (checked under Spec).                               *)
(***************************************************************************)
\* The collection thread is inside code of the probe or of a user callback.
InUserCode(l) ==
    \/ loop[l].pc \in {"probe_stats", "probe_list", "data_cb"}
    \/ loop[l].pc = "alerts" /\ ev[l].step = "cb"

\* C18: while the collection thread is inside the probe, the alert callback
\* or the data callback it owns neither data_mutex_ nor the alert system's
\* mutex_.
C18_NoLockInUserCode ==
    \A l \in LoopIds :
        InUserCode(l) => (data_mutex_ # l /\ mutex_ # l)

\* The alert callback is running on the collection thread while the client
\* holds data_mutex_ inside a read accessor.
C18_Witness ==
    \E l \in LoopIds :
        /\ loop[l].pc = "alerts"
        /\ ev[l].step = "cb"
        /\ ev[l].called # <<>>
        /\ data_mutex_ = MainThread
        /\ mutex_ = NoThread

(***************************************************************************)
(* A stalled probe (checked under SpecStall).                              *)
(***************************************************************************)
\* The collection thread is inside the probe.
Stalled(l) == loop[l].pc \in {"probe_stats", "probe_list"}

\* The calls a client makes while the probe is stalled.
StallCalls ==
    {"getLatestSystemStats", "getSystemHistory", "clearHistory", "getThresholds"}

\* C19: if the collection thread stays inside the probe for ever, each of
\* getLatestSystemStats, getSystemHistory, clearHistory and getThresholds
\* returns again and again; what a call returns while the thread is inside
\* the probe of its n-th tick is the history and the thresholds as they are,
\* and the history holds snapshots of the ticks before the n-th only.
C19_StallDoesNotBlock ==
    /\ <>[](\E l \in LoopIds : Stalled(l))
          => \A op \in StallCalls : []<>Returned(op)
    /\ [](\A l \in LoopIds : Stalled(l) =>
            /\ Len(pushed) < loop[l].ticks
            /\ \A k \in 1..Len(system_history_) :
                  \E j \in 1..Len(pushed) : system_history_[k] = pushed[j]
            /\ Returned("getLatestSystemStats") =>
                  IF system_history_ = <<>>
                  THEN DefaultMetrics(caller.ret.stats)
                  ELSE caller.ret.stats = system_history_[Len(system_history_)]
            /\ Returned("getSystemHistory") =>
                  caller.ret.history = SystemHistory(system_history_, caller.ret.count)
            /\ Returned("clearHistory") => system_history_ = <<>>
            /\ Returned("getThresholds") => caller.ret.thresholds = thresholds_)

\* The collection thread is inside the probe of its second tick and
\* getLatestSystemStats has returned the snapshot of the first, after the
\* thresholds were changed.
C19_Witness ==
    \E l \in LoopIds :
        /\ Stalled(l)
        /\ loop[l].ticks = 2
        /\ Returned("getLatestSystemStats")
        /\ pushed # <<>>
        /\ caller.ret.stats = pushed[Len(pushed)]
        /\ ~DefaultMetrics(caller.ret.stats)
        /\ thresholds_ # AlertThresholds

(***************************************************************************)
(* The lock discipline of the thresholds (checked under SpecStall).        *)
(***************************************************************************)
\* Thread t takes the step that reads thresholds_.cpu_threshold,
\* .memory_threshold or .io_threshold: the outer condition of a system check.
ReadsThresholdInCheckAlerts(t) ==
    /\ ev[t].stage \in SystemKeys
    /\ ev[t].step = "cmp"
    /\ ev'[t] # ev[t]

\* Thread t takes the step that reads thresholds_.cooldown_period: the body
\* of shouldAlert.
ReadsCooldownInShouldAlert(t) ==
    /\ ev[t].stage \in Checks
    /\ ev[t].step = "should"
    /\ ev'[t] # ev[t]

\* C20 as claimed: every step that reads a threshold, in checkAlerts or in
\* shouldAlert, is taken by a thread that owns mutex_; thresholds_ is written
\* only when no other thread owns mutex_, and getThresholds owns it from its
\* copy to its return.
C20_ThresholdAccessUnderMutex ==
    /\ [][\A t \in Threads :
            (ReadsThresholdInCheckAlerts(t) \/ ReadsCooldownInShouldAlert(t))
                => mutex_ = t]_vars
    /\ [][thresholds_' # thresholds_ => mutex_ = NoThread]_vars
    /\ [](Returned("getThresholds") => mutex_ = MainThread)

\* What holds of the code: the read of the cooldown period in shouldAlert,
\* the write of setThresholds and the copy of getThresholds exclude one
\* another; the value getThresholds returns is the one stored.
C20_ShouldAlertAndAccessorsUnderMutex ==
    /\ [][\A t \in Threads : ReadsCooldownInShouldAlert(t) => mutex_ = t]_vars
    /\ [][thresholds_' # thresholds_ => mutex_ = NoThread]_vars
    /\ [](Returned("getThresholds") =>
            (mutex_ = MainThread /\ caller.ret.thresholds = thresholds_))

\* The collection thread is at the comparison with thresholds_.cpu_threshold
\* while the client owns mutex_ inside getThresholds, after the client has
\* changed the thresholds.
C20_Witness ==
    \E l \in LoopIds :
        /\ loop[l].pc = "alerts"
        /\ ev[l].stage = "cpu" /\ ev[l].step = "cmp"
        /\ mutex_ = MainThread
        /\ Returned("getThresholds")
        /\ thresholds_ # AlertThresholds

(***************************************************************************)
(* Changes of the thresholds (checked under SpecAlert).                    *)
(***************************************************************************)
\* The condition of the check a frame is at, under thresholds th.
ExceedsUnder(e, th) ==
    CASE e.stage = "cpu" -> e.stats.cpu_percent > th.cpu_threshold
      [] e.stage = "memory" -> e.stats.memory_percent > th.memory_threshold
      [] e.stage = "io" ->
            e.stats.disk_io_read_rate + e.stats.disk_io_write_rate
                > th.io_threshold * BytesPerMB
      [] e.stage = "process" -> e.procs[e.i].cpu_percent > ProcessCpuThreshold

\* Thread t takes the outer condition of a check and goes on to shouldAlert.
ComparesAndPasses(t) ==
    ev'[t].stage = ev[t].stage /\ ev'[t].step = "should"

\* setThresholds changes thresholds_ and nothing else of the alert system:
\* not the cooldown map, not the firings so far, not a frame of checkAlerts.
SetThresholdsFrame ==
    thresholds_' # thresholds_ =>
        (last_alerts_' = last_alerts_ /\ fired' = fired /\ ev' = ev)

\* C21 as claimed: every check of an evaluation is decided by the thresholds
\* that were stored when the evaluation began, whatever setThresholds has
\* stored since; setThresholds changes no recorded time and no alert.
C21_EvaluationUsesThresholdsAtStart ==
    /\ [][\A t \in Threads :
            /\ (ev[t].stage \in Checks /\ ev[t].step = "cmp" /\ ev'[t] # ev[t]) =>
                  (ComparesAndPasses(t) <=> ExceedsUnder(ev[t], ev[t].began))
            /\ (ev[t].stage \in Checks /\ ev[t].step = "should" /\ ev'[t] # ev[t]) =>
                  (ev'[t].step = "fire" <=>
                      \/ AlertKey(ev[t]) \notin DOMAIN last_alerts_
                      \/ now - last_alerts_[AlertKey(ev[t])]
                            >= ev[t].began.cooldown_period)]_vars
    /\ [][SetThresholdsFrame]_vars

\* What holds of the code: every check is decided by the thresholds stored
\* at the moment of the check, so an evaluation during which thresholds_ is
\* not written uses the thresholds of its beginning for all of its checks;
\* setThresholds changes no recorded time and no alert.
C21_CheckUsesThresholdsAtCheck ==
    /\ [][\A t \in Threads :
            /\ (ev[t].stage \in Checks /\ ev[t].step = "cmp" /\ ev'[t] # ev[t]) =>
                  /\ ComparesAndPasses(t) <=> ExceedsUnder(ev[t], thresholds_)
                  /\ ev[t].began = thresholds_ =>
                        (ComparesAndPasses(t) <=> ExceedsUnder(ev[t], ev[t].began))
            /\ (ev[t].stage \in Checks /\ ev[t].step = "should" /\ ev'[t] # ev[t]) =>
                  (ev'[t].step = "fire" <=>
                      \/ AlertKey(ev[t]) \notin DOMAIN last_alerts_
                      \/ now - last_alerts_[AlertKey(ev[t])]
                            >= thresholds_.cooldown_period)]_vars
    /\ [][SetThresholdsFrame]_vars

\* An evaluation that began under a CPU threshold of 80 has passed its CPU
\* check without an alert for a CPU usage of 81, because the threshold was
\* raised to 90 after it began.
C21_Witness ==
    \E t \in Threads :
        /\ ev[t].stage = "memory"
        /\ ev[t].stats.cpu_percent > ev[t].began.cpu_threshold
        /\ ev[t].stats.cpu_percent <= thresholds_.cpu_threshold
        /\ ev[t].alerts = <<>>
        /\ "cpu" \notin DOMAIN last_alerts_

(***************************************************************************)
(* The rates of getIOStats and getCPUUsageLinux (checked under SpecProbe). *)
(***************************************************************************)
\* The call of getIOStats before the last one did not report larger counters
\* than the last one.
IOCountersNonDecreasing ==
    /\ readings.io[1].read_bytes <= readings.io[2].read_bytes
    /\ readings.io[1].write_bytes <= readings.io[2].write_bytes

\* Clock ticks between the last two calls of getIOStats.
IOElapsedTicks == readings.io[2].timestamp - readings.io[1].timestamp

\* rate = delta bytes / (ticks / (1000 * TicksPerMs)) seconds.
RateIs(rate, delta, ticks) ==
    rate.num * ticks = delta * 1000 * TicksPerMs * rate.den

\* C22 as claimed: the first call of getIOStats yields rates 0; a later call
\* whose counters are not below and whose timestamp is after those of the
\* call before it yields (current - previous) / elapsed seconds.
C22_RateIsDeltaOverElapsed ==
    /\ Len(readings.io) = 1 =>
          (readings.io[1].out.read_rate = ZeroRate
           /\ readings.io[1].out.write_rate = ZeroRate)
    /\ (Len(readings.io) = 2 /\ IOCountersNonDecreasing /\ IOElapsedTicks > 0) =>
          /\ RateIs(readings.io[2].out.read_rate,
                    readings.io[2].read_bytes - readings.io[1].read_bytes,
                    IOElapsedTicks)
          /\ RateIs(readings.io[2].out.write_rate,
                    readings.io[2].write_bytes - readings.io[1].write_bytes,
                    IOElapsedTicks)

\* What holds of the code: the first call yields 0; a later call divides the
\* difference to the call before it by the elapsed time cut to whole
\* milliseconds, which is the elapsed time when that is a whole number of
\* milliseconds, and yields 0 when less than a millisecond has passed.
C22_RateIsDeltaOverWholeMs ==
    /\ Len(readings.io) = 1 =>
          (readings.io[1].out.read_rate = ZeroRate
           /\ readings.io[1].out.write_rate = ZeroRate)
    /\ (Len(readings.io) = 2 /\ IOCountersNonDecreasing /\ IOElapsedTicks > 0) =>
          IF IOElapsedTicks < TicksPerMs
          THEN /\ readings.io[2].out.read_rate = ZeroRate
               /\ readings.io[2].out.write_rate = ZeroRate
          ELSE /\ RateIs(readings.io[2].out.read_rate,
                         readings.io[2].read_bytes - readings.io[1].read_bytes,
                         (IOElapsedTicks \div TicksPerMs) * TicksPerMs)
               /\ RateIs(readings.io[2].out.write_rate,
                         readings.io[2].write_bytes - readings.io[1].write_bytes,
                         (IOElapsedTicks \div TicksPerMs) * TicksPerMs)

\* A call one millisecond after a call that read 512 bytes fewer: 512000
\* bytes per second.
C22_Witness ==
    /\ Len(readings.io) = 2
    /\ IOElapsedTicks = TicksPerMs
    /\ readings.io[2].read_bytes - readings.io[1].read_bytes = 512
    /\ readings.io[2].out.read_rate = [num |-> 512000, den |-> 1]
    /\ readings.io[2].out.write_rate = [num |-> 0, den |-> 1]

\* The last call of a reader, and the one before it.
LastIO == readings.io[Len(readings.io)]
LastCPU == readings.cpu[Len(readings.cpu)]

\* The total of the CPU times went down between the last two successful
\* reads of /proc/stat.
CPUTotalDecreased ==
    /\ Len(readings.cpu) = 2
    /\ readings.cpu[1].read /\ readings.cpu[2].read
    /\ TotalOf(readings.cpu[2].times) < TotalOf(readings.cpu[1].times)

\* The baseline of the next call is the last reading.
BaselineIsLastReading ==
    /\ readings.io # <<>> =>
          info_collector_.prev_io_counters_ =
              [read_bytes |-> LastIO.read_bytes, write_bytes |-> LastIO.write_bytes,
               timestamp |-> LastIO.timestamp]
    /\ (readings.cpu # <<>> /\ LastCPU.read) =>
          info_collector_.prev_cpu_times_ = LastCPU.times

\* C23 as claimed: a counter that is lower than in the reading before gives
\* rate 0 for that reading (CPU percent 0 when the total of the CPU times is
\* lower), and the lower reading is the baseline of the next one.
C23_DecreaseYieldsZero ==
    /\ Len(readings.io) = 2 =>
          /\ readings.io[2].read_bytes < readings.io[1].read_bytes =>
                readings.io[2].out.read_rate = ZeroRate
          /\ readings.io[2].write_bytes < readings.io[1].write_bytes =>
                readings.io[2].out.write_rate = ZeroRate
    /\ CPUTotalDecreased => readings.cpu[2].out = ZeroRate
    /\ BaselineIsLastReading

\* What holds of the code: the last reading is always the baseline of the
\* next; counters that do not go down never give a wrapped rate (the rate
\* times the milliseconds elapsed is the difference); and a counter that
\* went down gives, when at least a millisecond has passed, the difference
\* wrapped around the width of the counter.
C23_BaselineMovesAndDecreaseWraps ==
    /\ BaselineIsLastReading
    /\ (Len(readings.io) = 2 /\ IOElapsedTicks >= TicksPerMs) =>
          /\ readings.io[2].out.read_rate.num =
                (IF readings.io[2].read_bytes >= readings.io[1].read_bytes
                 THEN readings.io[2].read_bytes - readings.io[1].read_bytes
                 ELSE CounterModulus
                        - (readings.io[1].read_bytes - readings.io[2].read_bytes))
                * 1000
          /\ readings.io[2].out.read_rate.den = IOElapsedTicks \div TicksPerMs

\* /proc/diskstats reported 1024 bytes read fewer than a millisecond or more
\* before: the rate is that of a counter that wrapped around.
C23_Witness ==
    /\ Len(readings.io) = 2
    /\ IOElapsedTicks >= TicksPerMs
    /\ readings.io[1].read_bytes = 1536
    /\ readings.io[2].read_bytes = 512
    /\ readings.io[2].out.read_rate.num = (CounterModulus - 1024) * 1000
    /\ info_collector_.prev_io_counters_.read_bytes = 512

\* C24: a zero denominator yields 0 and no division by it: no time between
\* two readings of the I/O counters gives rates 0, no difference between the
\* totals of two readings of the CPU times gives CPU percent 0, a memory
\* total of 0 gives memory percent 0 for the system and for every process;
\* no quotient a reader returns has denominator 0.
C24_ZeroDenominatorYieldsZero ==
    /\ (Len(readings.io) = 2 /\ IOElapsedTicks = 0) =>
          (LastIO.out.read_rate = ZeroRate /\ LastIO.out.write_rate = ZeroRate)
    /\ readings.io # <<>> =>
          (LastIO.out.read_rate.den > 0 /\ LastIO.out.write_rate.den > 0)
    /\ (Len(readings.cpu) = 2 /\ readings.cpu[1].read /\ readings.cpu[2].read
            /\ TotalOf(readings.cpu[2].times) = TotalOf(readings.cpu[1].times)) =>
          LastCPU.out = ZeroRate
    /\ readings.cpu # <<>> => LastCPU.out.den > 0
    /\ readings.mem.stats.memory_total_bytes = 0 =>
          /\ readings.mem.stats.memory_percent = 0
          /\ \A k \in 1..Len(readings.mem.processes) :
                readings.mem.processes[k].memory_percent = 0

\* All three at once: the I/O counters moved in no time, the CPU times were
\* read twice with the same total, and the memory total of a reading with a
\* process that holds memory is 0.
C24_Witness ==
    /\ Len(readings.io) = 2 /\ IOElapsedTicks = 0
    /\ readings.io[2].read_bytes > readings.io[1].read_bytes
    /\ LastIO.out.read_rate = ZeroRate
    /\ Len(readings.cpu) = 2 /\ readings.cpu[1].read /\ readings.cpu[2].read
    /\ readings.cpu[1].times = readings.cpu[2].times
    /\ LastCPU.out = ZeroRate
    /\ readings.mem.stats.timestamp = now
    /\ readings.mem.stats.memory_total_bytes = 0
    /\ readings.mem.stats.process_count = 1
    /\ readings.mem.processes # <<>>
    /\ readings.mem.processes[1].memory_bytes > 0
    /\ readings.mem.processes[1].memory_percent = 0

PositionIn(list, pid) == CHOOSE k \in 1..Len(list) : list[k].pid = pid

\* sorted holds the entries of list, each once.
IsPermutationOf(sorted, list) ==
    /\ Len(sorted) = Len(list)
    /\ \A k \in 1..Len(list) : \E j \in 1..Len(sorted) : sorted[j] = list[k]
    /\ \A j, k \in 1..Len(sorted) : j # k => sorted[j] # sorted[k]

\* No entry is followed by one of larger cpu_percent.
CpuNonIncreasing(sorted) ==
    \A k \in 1..(Len(sorted) - 1) : sorted[k].cpu_percent >= sorted[k + 1].cpu_percent

\* Entries of equal cpu_percent are in sorted in the order they have in list.
KeepsOrderOfEqual(sorted, list) ==
    \A j, k \in 1..Len(list) :
        (j < k /\ list[j].cpu_percent = list[k].cpu_percent)
            => PositionIn(sorted, list[j].pid) < PositionIn(sorted, list[k].pid)

\* The list the probe returned in the step that has just sorted it, with the
\* loop's memory percentages.
ProbeReturned(l, list) ==
    /\ list \in SortLists
    /\ LoopGetProcessList(l, list)

\* C26 (as stated): the list a tick hands on is a permutation of the list
\* the probe returned, in non-increasing order of cpu_percent, and entries
\* of equal cpu_percent keep the order in which the probe returned them.
C26_SortIsStable ==
    [][\A l \in LoopIds : \A list \in SortLists :
          ProbeReturned(l, list)
              => LET probed == WithMemoryPercent(list, loop[l].stats.memory_total_bytes)
                 IN /\ IsPermutationOf(loop'[l].processes, probed)
                    /\ CpuNonIncreasing(loop'[l].processes)
                    /\ KeepsOrderOfEqual(loop'[l].processes, probed)]_vars

\* C26 (what the code guarantees): the list a tick hands on is a permutation
\* of the list the probe returned, in non-increasing order of cpu_percent;
\* alert evaluation receives that list.
C26_SortedPermutation ==
    [][\A l \in LoopIds :
          /\ \A list \in SortLists :
                ProbeReturned(l, list)
                    => LET probed == WithMemoryPercent(list, loop[l].stats.memory_total_bytes)
                       IN /\ IsPermutationOf(loop'[l].processes, probed)
                          /\ CpuNonIncreasing(loop'[l].processes)
          /\ (ev[l].stage = "idle" /\ ev'[l].stage # "idle")
                => ev'[l].procs = loop[l].processes]_vars

\* A tick has handed on the list <<1, 2, 3>> of equal cpu_percent with its
\* first two entries exchanged, and alert evaluation is working on it.
C26_Witness ==
    \E l \in LoopIds :
        /\ ev[l].stage # "idle"
        /\ Len(ev[l].procs) = 3
        /\ ev[l].procs[1].pid = 2
        /\ ev[l].procs[2].pid = 1
        /\ \A k \in 1..3 : ev[l].procs[k].cpu_percent = 0

(***************************************************************************)
(* clearHistory.                                                           *)
(***************************************************************************)
\* The smaller of two numbers.
Min(a, b) == IF a < b THEN a ELSE b

\* What clearHistory must leave alone: the capacity, the thresholds, the
\* cooldown map, the callbacks and the Running/Stopped state.
ClearHistoryFrame ==
    UNCHANGED <<max_history_size_, thresholds_, last_alerts_, alert_callback_,
                data_callback_, collecting_, collection_thread_>>

\* C27: clearHistory leaves the history empty and changes neither the
\* capacity, the thresholds, the cooldown map nor the Running/Stopped state,
\* in the step that clears and in the step that returns; and whenever
\* data_mutex_ is free the history holds the last max_history_size_ of the
\* snapshots stored since the last clearHistory, just as it holds those
\* stored since construction.
C27_ClearHistoryFrame ==
    /\ [](Returned("clearHistory") => system_history_ = <<>>)
    /\ [][/\ (caller.pc = "idle" /\ caller'.pc = "returned"
                /\ caller'.ret.op = "clearHistory")
              => (system_history_' = <<>> /\ ClearHistoryFrame)
          /\ (Returned("clearHistory") /\ caller'.pc = "idle")
              => (system_history_' = system_history_ /\ ClearHistoryFrame)]_vars
    /\ [](data_mutex_ = NoThread
            => system_history_ =
                  LastN(pushed, Min(Len(pushed), max_history_size_)))

\* clearHistory has just emptied the history of a running collector of
\* capacity two whose ticks have fired an alert, and a tick is about to
\* store its snapshot.
C27_Witness ==
    /\ Returned("clearHistory")
    /\ system_history_ = <<>>
    /\ collecting_
    /\ max_history_size_ = 2
    /\ last_alerts_ # <<>>
    /\ \E l \in LoopIds : loop[l].pc = "store"

(***************************************************************************)
(* The cooldown map.                                                       *)
(***************************************************************************)
\* The step is a shouldAlert of some thread that returns true for the key.
FiresUnder(key) ==
    \E t \in Threads :
        /\ ev[t].stage \in Checks /\ ev[t].step = "should"
        /\ AlertKey(ev[t]) = key
        /\ ev'[t].step = "fire"

\* C28: the cooldown map only grows.  No step removes a key; a key enters
\* the map only in a shouldAlert that returns true for it, with the time of
\* that step; the time recorded under a key never decreases, and it changes
\* only when an alert fires under that key.
C28_CooldownMapOnlyGrows ==
    [][/\ DOMAIN last_alerts_ \subseteq DOMAIN last_alerts_'
       /\ \A key \in DOMAIN last_alerts_' \ DOMAIN last_alerts_ :
             FiresUnder(key) /\ last_alerts_'[key] = now
       /\ \A key \in DOMAIN last_alerts_ :
             /\ last_alerts_'[key] >= last_alerts_[key]
             /\ last_alerts_'[key] # last_alerts_[key]
                   => (FiresUnder(key) /\ last_alerts_'[key] = now)]_vars

\* The map holds the memory key with the time 0 of its only firing next to
\* the CPU key, which fired at 0 and has just fired again at 2.
C28_Witness ==
    /\ {"cpu", "memory"} \subseteq DOMAIN last_alerts_
    /\ last_alerts_["memory"] = 0
    /\ last_alerts_["cpu"] = 2
    /\ Len(FiredUnder("cpu")) = 2
    /\ FiredUnder("cpu")[1].at = 0
    /\ Len(FiredUnder("memory")) = 1
    /\ \E t \in AlertClients : ev[t].stage = "cpu" /\ ev[t].step = "fire"

(***************************************************************************)
(* The per-process histories of the process monitor.                       *)
(***************************************************************************)
\* The histories of an entry of `processes` have the same length, at most
\* MAX_HISTORY.
HistoriesBounded(info) ==
    /\ Len(info.cpuHistory) = Len(info.memHistory)
    /\ Len(info.cpuHistory) <= MAX_HISTORY

\* C29 (as stated): the CPU and memory histories of every pid have equal
\* length, at most MAX_HISTORY, and after k consecutive refreshes in which
\* the pid was present they hold its last min(k, MAX_HISTORY) samples,
\* oldest first.
C29_HistoriesHoldLastSamples ==
    \A i \in 1..Len(monitor.processes) :
        LET info == monitor.processes[i]
            last == sampled[info.pid]
        IN /\ HistoriesBounded(info)
           /\ info.cpuHistory = [k \in 1..Len(last) |-> last[k].cpuUsage]
           /\ info.memHistory = [k \in 1..Len(last) |-> last[k].memoryUsage]

\* C29 (what the code guarantees): the histories of every pid have equal
\* length, at most MAX_HISTORY, and hold one sample, that of the last
\* refresh, however many refreshes the pid has been present in.
C29_HistoriesHoldLastSampleOnly ==
    \A i \in 1..Len(monitor.processes) :
        LET info == monitor.processes[i]
            last == sampled[info.pid]
        IN /\ HistoriesBounded(info)
           /\ last # <<>>
           /\ info.cpuHistory = <<last[Len(last)].cpuUsage>>
           /\ info.memHistory = <<last[Len(last)].memoryUsage>>
           /\ info.cpuHistory = <<info.cpuUsage>>
           /\ info.memHistory = <<info.memoryUsage>>

\* Pid 1 was found by two refreshes in a row with working sets 10 and 20,
\* and its memory history holds 20 alone.
C29_Witness ==
    /\ Len(sampled[1]) = 2
    /\ sampled[1][1].memoryUsage = 10
    /\ sampled[1][2].memoryUsage = 20
    /\ \E i \in 1..Len(monitor.processes) :
          /\ monitor.processes[i].pid = 1
          /\ monitor.processes[i].memHistory = <<20>>
          /\ Len(monitor.processes[i].cpuHistory) = 1

(***************************************************************************)
(* The frame of shouldAlert.                                               *)
(***************************************************************************)
\* The thread leaves the step of a check it is at.
Leaves(t, step) ==
    /\ ev[t].stage \in Checks
    /\ ev[t].step = step
    /\ ev'[t] # ev[t]

\* C30: a check whose metric does not exceed its threshold does not call
\* shouldAlert and leaves the cooldown map as it is; a shouldAlert that
\* returns false leaves the map as it is; one that returns true sets the
\* entry of its key to the time of the call; and no shouldAlert adds,
\* removes or changes the entry of another key, or changes the thresholds
\* or the callback.
C30_ShouldAlertFrame ==
    [][\A t \in Threads :
          /\ (Leaves(t, "cmp") /\ ~ExceedsThreshold(ev[t]))
                => (last_alerts_' = last_alerts_ /\ ev'[t].step # "should")
          /\ Leaves(t, "should")
                => /\ thresholds_' = thresholds_
                   /\ alert_callback_' = alert_callback_
                   /\ DOMAIN last_alerts_' \subseteq
                          DOMAIN last_alerts_ \cup {AlertKey(ev[t])}
                   /\ \A key \in DOMAIN last_alerts_ \ {AlertKey(ev[t])} :
                         /\ key \in DOMAIN last_alerts_'
                         /\ last_alerts_'[key] = last_alerts_[key]
                   /\ IF ev'[t].step = "fire"
                      THEN /\ AlertKey(ev[t]) \in DOMAIN last_alerts_'
                           /\ last_alerts_'[AlertKey(ev[t])] = now
                      ELSE last_alerts_' = last_alerts_]_vars

\* A client's CPU check of a snapshot above every threshold has been
\* suppressed (no alert, the memory check is next) at time 1, and the CPU
\* key still carries time 0; the snapshot's memory percent is at the
\* threshold.
C30_Witness ==
    /\ ev["c1"].stage = "memory" /\ ev["c1"].step = "cmp"
    /\ ev["c1"].alerts = <<>>
    /\ ev["c1"].stats.cpu_percent = 91
    /\ ev["c1"].stats.memory_percent = thresholds_.memory_threshold
    /\ now = 1
    /\ "cpu" \in DOMAIN last_alerts_
    /\ last_alerts_["cpu"] = 0

(***************************************************************************)
(* Several threads starting and stopping the collector.                    *)
(***************************************************************************)
\* The collection threads that have been created and have not finished.
Alive == {l \in LoopIds : loop[l].pc \notin {"unborn", "exited"}}

\* The calls of stopCollection that are inside collection_thread_.join().
Joining == {c \in AlertClients : callers[c] = "join"}

\* C31 (as stated): under every interleaving of startCollection and
\* stopCollection from several threads at most one collection loop is
\* running, collection_thread_ is never assigned while it holds a joinable
\* thread, and no two callers are joining the thread at once.
C31_StartStopSerialised ==
    /\ [](Cardinality(Alive) <= 1)
    /\ [](Cardinality(Joining) <= 1)
    /\ [][\A c \in AlertClients :
            (callers[c] = "start_spawn" /\ callers'[c] # "start_spawn")
                => collection_thread_ = NoThread]_vars

\* C31 (what the code guarantees): a thread is constructed only by a caller
\* whose load of collecting_ returned false, every thread constructed is a
\* new one, an assignment to a joinable collection_thread_ ends in
\* std::terminate, and while the program has not terminated
\* collection_thread_ holds a thread that was created.
C31_AssignToJoinableTerminates ==
    /\ [](~terminated => (collection_thread_ = NoThread
                            \/ loop[collection_thread_].pc # "unborn"))
    /\ [][\A c \in AlertClients :
            (callers[c] = "start_spawn" /\ callers'[c] # "start_spawn")
                => /\ spawned' = spawned + 1
                   /\ loop[LoopId(spawned')].pc = "unborn"
                   /\ loop'[LoopId(spawned')].pc = "check"
                   /\ terminated' = (collection_thread_ # NoThread)]_vars

\* Both clients are inside collection_thread_.join() of a collection thread
\* that has not finished.
C31_Witness ==
    /\ ~terminated
    /\ Cardinality(Joining) = 2
    /\ collection_thread_ # NoThread
    /\ loop[collection_thread_].pc # "exited"

(***************************************************************************)
(* Loading the history from a file.                                        *)
(***************************************************************************)
\* C32 (as stated): after a load and after every tick that follows it the
\* history holds at most max_history_size_ entries, whatever the number of
\* entries of the file.
C32_LoadedHistoryBounded ==
    data_mutex_ = NoThread => Len(system_history_) <= max_history_size_

\* C32 (what the code guarantees): a load leaves as many entries as it
\* pushed, whatever the capacity; the locked block of a tick appends one
\* entry and removes one when the history is then longer than
\* max_history_size_, so a tick never shortens a history of more than
\* max_history_size_ entries.
C32_TickKeepsLoadedLength ==
    [][/\ \A file \in HistoryFiles :
             loadHistoryFromFile(file)
                 => Len(system_history_') =
                        (IF file.bad = 0 THEN Len(file.entries) ELSE file.bad - 1)
       /\ \A l \in LoopIds :
             (loop[l].pc = "evict" /\ loop'[l].pc = "alerts")
                 => Len(system_history_') =
                        (IF Len(system_history_) - 1 >= max_history_size_
                         THEN Len(system_history_) - 1
                         ELSE Len(system_history_))]_vars

\* A collector of capacity one has loaded a file of two entries and a tick
\* has since stored its snapshot: the history holds the second loaded entry
\* and the tick's snapshot, and data_mutex_ is free.
C32_Witness ==
    /\ max_history_size_ = 1
    /\ data_mutex_ = NoThread
    /\ Len(system_history_) = 2
    /\ system_history_[1].cpu_percent = FileEntry(2).cpu_percent
    /\ \E l \in LoopIds :
          /\ loop[l].pc = "alerts"
          /\ system_history_[2] = loop[l].stats

\* C33: a load of a file that cannot be opened or cannot be parsed returns
\* false and leaves the history as it was; a load that returns true leaves
\* in the history exactly the entries of the file, in file order, as
\* loaded, whatever the history held before.
C33_LoadReplacesOrLeaves ==
    [][/\ \A file \in HistoryFiles :
             loadHistoryFromFileFails(file)
                 => /\ ~(file.opens /\ file.parses)
                    /\ ~caller'.ret.ok
                    /\ caller'.ret.op = "loadHistoryFromFile"
                    /\ system_history_' = system_history_
       /\ \A file \in HistoryFiles :
             (loadHistoryFromFile(file) /\ caller'.ret.ok)
                 => /\ Len(system_history_') = Len(file.entries)
                    /\ \A k \in 1..Len(file.entries) :
                          system_history_'[k] = LoadedStats(file.entries[k])
       /\ (caller.pc \in {"returned", "load_returned"} /\ caller'.pc = "idle")
             => system_history_' = system_history_]_vars

\* A load of the file holding entries 2 and 1 has returned true on a
\* collector whose history held a tick's snapshot: the history is the two
\* entries in that order with the time of the load.
C33_Witness ==
    /\ Returned("loadHistoryFromFile")
    /\ caller.ret.ok
    /\ collecting_
    /\ \E l \in LoopIds : loop[l].ticks >= 1 /\ loop[l].pc = "sleep"
    /\ system_history_ = <<LoadedStats(FileEntry(2)), LoadedStats(FileEntry(1))>>

(***************************************************************************)
(* A failing alert callback (checked under SpecThrowing).                  *)
(***************************************************************************)
\* C34: when the alert callback throws during a tick, the tick's snapshot
\* has already been appended to the history, the key of the alert is
\* recorded with the time of its firing and is in cooldown, the evaluation
\* is abandoned (no further check of it is made), and the tick does not
\* enter the data callback: the loop goes to its sleep, or the process
\* terminates when the exception is not a std::exception.  The data
\* callback is entered only from an evaluation that returned.
C34_FailedAlertCallback ==
    [][\A l \in LoopIds :
          /\ \A kind \in ExceptionKinds :
                LoopAlertCallbackThrows(l, kind)
                    => /\ pushed # <<>>
                       /\ pushed[Len(pushed)] = loop[l].stats
                       /\ system_history_' = system_history_
                       /\ AlertKey(ev[l]) \in DOMAIN last_alerts_'
                       /\ last_alerts_' = last_alerts_
                       /\ FiredUnder(AlertKey(ev[l])) # <<>>
                       /\ last_alerts_[AlertKey(ev[l])] =
                              FiredUnder(AlertKey(ev[l]))[Len(FiredUnder(AlertKey(ev[l])))].at
                       /\ ~CooldownElapsed(AlertKey(ev[l]))
                       /\ terminated' \/ (ev'[l] = EvIdle /\ loop'[l].pc = "sleep")
          /\ (loop'[l].pc = "data_cb" /\ loop[l].pc # "data_cb")
                => (loop[l].pc = "alerts" /\ ev[l].stage = "return")]_vars

\* A tick whose snapshot exceeds the CPU and the memory threshold is at its
\* sleep with both callbacks registered: the CPU key is recorded, the
\* memory key is not (the CPU alert's callback threw and the memory check
\* was never made), and the snapshot is in the history.
C34_Witness ==
    \E l \in LoopIds :
        /\ ~terminated
        /\ loop[l].pc = "sleep"
        /\ loop[l].ticks = 1
        /\ alert_callback_ /\ data_callback_
        /\ loop[l].stats.cpu_percent > thresholds_.cpu_threshold
        /\ loop[l].stats.memory_percent > thresholds_.memory_threshold
        /\ DOMAIN last_alerts_ = {"cpu"}
        /\ system_history_ = <<loop[l].stats>>

(***************************************************************************)
(* The process count of a snapshot (checked under SpecSort).               *)
(***************************************************************************)
\* C35 (as stated): the process_count of the snapshot that a tick passes to
\* alert evaluation and to the data callback is the number of entries of
\* the process list passed with it.
C35_CountIsLengthOfList ==
    \A l \in LoopIds :
        /\ loop[l].pc \in {"alerts", "data_cb"}
              => loop[l].stats.process_count = Len(loop[l].processes)
        /\ ev[l].stage # "idle" => ev[l].stats.process_count = Len(ev[l].procs)

\* C35 (what the code guarantees): process_count is the size of the list
\* that getSystemStats reads for itself; the list passed on is the one the
\* loop reads afterwards, which leaves the snapshot as it is.
C35_CountIsLengthOfOwnRead ==
    [][\A l \in LoopIds :
          /\ \A r \in ProbeReadings, list \in SortLists :
                LoopGetSystemStats(l, r, list)
                    => loop'[l].stats.process_count = Len(list)
          /\ \A list \in SortLists :
                LoopGetProcessList(l, list)
                    => /\ Len(loop'[l].processes) = Len(list)
                       /\ loop'[l].stats = loop[l].stats]_vars

\* Alert evaluation is working on a snapshot that counts two processes and
\* a list of three: a process started between the two reads of the tick.
C35_Witness ==
    \E l \in LoopIds :
        /\ loop[l].pc = "alerts"
        /\ ev[l].stage = "cpu"
        /\ ev[l].stats.process_count = 2
        /\ Len(ev[l].procs) = 3

(***************************************************************************)
(* Registering callbacks on a running collector (checked under             *)
(* SpecRegister).                                                          *)
(***************************************************************************)
\* The collection thread tests or enters the data callback in this step.
ReadsDataCallback(l) ==
    /\ loop[l].pc = "alerts" /\ ev[l].stage = "return"
    /\ loop'[l] # loop[l] \/ (terminated' /\ ~terminated)

\* The collection thread tests or enters the alert callback in this step.
ReadsAlertCallback(l) ==
    /\ ev[l].stage \in Checks /\ ev[l].step = "fire"
    /\ ev'[l] # ev[l]

\* C36 (as stated): the collection thread never tests or enters a callback
\* while the client is assigning it.
C36_RegistrationExcludesLoop ==
    [][\A l \in LoopIds :
          /\ ReadsDataCallback(l) => caller.pc # "set_data_callback"
          /\ ReadsAlertCallback(l) => caller.pc # "set_alert_callback"]_vars

\* C36 (what the code guarantees): the assignment of alert_callback_ is
\* made with mutex_ held, so it excludes shouldAlert and the other
\* accessors of the alert system; the reads of the callbacks by the
\* collection thread are made with neither mutex_ nor data_mutex_ held.
C36_OnlyAlertWriteIsLocked ==
    /\ [](caller.pc = "set_alert_callback" => mutex_ = MainThread)
    /\ [](caller.pc = "set_data_callback" => data_mutex_ # MainThread)
    /\ [][\A l \in LoopIds :
            (ReadsDataCallback(l) \/ ReadsAlertCallback(l))
                => (mutex_ # l /\ data_mutex_ # l)]_vars

\* The client is still inside the assignment of data_callback_, which held
\* no target before, and the collection thread is already in the data
\* callback.
C36_Witness ==
    /\ ~terminated
    /\ caller.pc = "set_data_callback"
    /\ ~data_callback_
    /\ \E l \in LoopIds : loop[l].pc = "data_cb"

(***************************************************************************)
(* A collector of capacity 0 (checked under Spec).                         *)
(***************************************************************************)
\* The collection thread is between the push_back and the pop_front of its
\* store block.
InsideStoreBlock == \E l \in LoopIds : loop[l].pc = "evict" /\ data_mutex_ = l

\* C37: with max_history_size_ = 0 the history is empty whenever no store
\* block is open, the store block of every tick ends with an empty history
\* and enters the alert evaluation, an evaluation that returns enters the
\* data callback when one is registered, getSystemHistory returns the empty
\* sequence and getLatestSystemStats a snapshot of default metrics.
C37_CapacityZero ==
    /\ [](max_history_size_ = 0 =>
            /\ ~InsideStoreBlock => system_history_ = <<>>
            /\ Returned("getSystemHistory") => caller.ret.history = <<>>
            /\ Returned("getLatestSystemStats")
                  => DefaultMetrics(caller.ret.stats))
    /\ [][max_history_size_ = 0 =>
            \A l \in LoopIds :
               /\ (loop[l].pc = "evict" /\ loop'[l] # loop[l])
                     => /\ system_history_' = <<>>
                        /\ data_mutex_' = NoThread
                        /\ loop'[l].pc = "alerts"
                        /\ ev'[l].stage # "idle"
                        /\ ev'[l].stats = loop[l].stats
               /\ (/\ loop[l].pc = "alerts" /\ ev[l].stage = "return"
                   /\ data_callback_ /\ loop'[l] # loop[l])
                     => loop'[l].pc = "data_cb"]_vars

\* A collector of capacity 0 has stored a snapshot, its thread is in the data
\* callback of a tick, and getSystemHistory, called after the store, has
\* returned the empty sequence.
C37_Witness ==
    /\ max_history_size_ = 0
    /\ pushed # <<>>
    /\ \E l \in LoopIds : loop[l].pc = "data_cb"
    /\ Returned("getSystemHistory")
    /\ data_mutex_ = MainThread
    /\ caller.ret.history = <<>>

(***************************************************************************)
(* Stop followed by start (checked under SpecRestart).                     *)
(***************************************************************************)
\* The client takes a step of startCollection or of stopCollection.
StartOrStopStep ==
    /\ caller' # caller
    /\ \/ caller.pc \in {"start_set", "start_spawn", "join"}
       \/ caller'.pc \in {"start_set", "start_spawn", "join"}

\* C38: no step of stopCollection or of startCollection changes the history,
\* the cooldown map, the thresholds or the baselines of the probe; so also
\* after a restart the history is the last max_history_size_ snapshots
\* stored by any of the threads, oldest first, getSystemHistory returns
\* them, and a key is recorded anew only once its cooldown has elapsed.
C38_RestartFrame ==
    /\ [][StartOrStopStep =>
            UNCHANGED <<system_history_, last_alerts_, thresholds_,
                        info_collector_, pushed, fired>>]_vars
    /\ [](~InsideStoreBlock =>
            system_history_ = LastN(pushed, Min(max_history_size_, Len(pushed))))
    /\ [](Returned("getSystemHistory") => caller.ret.history = system_history_)
    /\ [][\A k \in DOMAIN last_alerts_ :
            last_alerts_'[k] # last_alerts_[k]
                => /\ now - last_alerts_[k] >= thresholds_.cooldown_period
                   /\ last_alerts_'[k] = now]_vars
    /\ [][DOMAIN last_alerts_ \subseteq DOMAIN last_alerts_']_vars

\* The first thread stored one snapshot, fired the CPU alert and was
\* stopped; the second thread has stored one snapshot with the CPU above its
\* threshold and finished its evaluation without a second firing;
\* getSystemHistory returns the entry of before the stop followed by the
\* new one.
C38_Witness ==
    /\ spawned = 2
    /\ loop[LoopId(1)].pc = "exited" /\ loop[LoopId(1)].ticks = 1
    /\ loop[LoopId(2)].pc = "sleep" /\ loop[LoopId(2)].ticks = 1
    /\ loop[LoopId(2)].stats.cpu_percent > thresholds_.cpu_threshold
    /\ Len(pushed) = 2
    /\ pushed[1].cpu_percent > thresholds_.cpu_threshold
    /\ Len(FiredUnder("cpu")) = 1
    /\ InCooldown("cpu")
    /\ Returned("getSystemHistory")
    /\ caller.ret.history = pushed

(***************************************************************************)
(* stopCollection inside a callback (checked under SpecSelfStop).          *)
(***************************************************************************)
\* C39: once a callback has called stopCollection on the collection thread,
\* the thread begins no further tick and it ends: it is never left waiting
\* for itself.
C39_SelfStopEnds ==
    /\ [][\A l \in LoopIds :
            ~collecting_ => loop'[l].ticks = loop[l].ticks]_vars
    /\ \A l \in LoopIds :
          (loop[l].pc # "unborn" /\ ~collecting_) ~> (loop[l].pc = "exited")

\* The thread has ended after one tick, stopped by its callback during the
\* tick; the client never called stopCollection, so collection_thread_ is
\* still joinable.
C39_Witness ==
    /\ ~collecting_
    /\ ~terminated
    /\ caller.pc = "idle"
    /\ collection_thread_ = LoopId(1)
    /\ loop[LoopId(1)].pc = "exited"
    /\ loop[LoopId(1)].ticks = 1
    /\ data_callback_

====
